---- MODULE Spec2Model ----
(***************************************************************************)
(* A model of the gamenetworking demo: the fixed-rate TickTimer, the       *)
(* simulated network channels, the entity integration, the Client          *)
(* pipeline and the authoritative Server loop.                             *)
(*                                                                         *)
(* Abstractions, stated once:                                              *)
(*  - Instant/Duration are natural numbers of milliseconds; `now` is the   *)
(*    wall clock, and every Instant::now()/elapsed() of one handler call   *)
(*    reads the same value (a handler runs in zero time).                  *)
(*  - f32 positions are exact numbers: integers for everything the server  *)
(*    computes, exact rationals (numerator over a common denominator) for  *)
(*    what the client interpolates.  f32 rounding is not modelled.         *)
(*  - Option<T> is a sequence of length 0 (None) or 1 (Some).              *)
(*  - rand::gen_range is a nondeterministic choice over its range.         *)
(***************************************************************************)
EXTENDS Integers, Sequences, FiniteSets, TLC

VARIABLES
    now,      \* wall clock, ms
    timerH,   \* TickTimer harness: one timer and what it has emitted
    netH,     \* channel harness: one channel and its send/receive log
    simH,     \* integration harness: two entities fed one input sequence
    env,      \* what the build and the run fix: State.tick, HashMap order
    srv,      \* the Server
    srvNet,   \* the server's UnreliableNetwork (Server::network)
    clients,  \* the Clients, by id
    cnet,     \* each client's UnreliableNetwork (Client::network), by id
    trace     \* the last handler call: its name and what the claims need of it

sysVars == <<env, srv, srvNet, clients, cnet, trace>>
vars == <<now, timerH, netH, simH, env, srv, srvNet, clients, cnet, trace>>

----------------------------------------------------------------------------
(* Bounds of the model *)

MaxNow == 12          \* the clock stops here
MaxSends == 3         \* send calls on the harness channel
MaxNetNow == 4        \* clock horizon of the channel harness
MaxLatency == 3       \* largest max_latency_ms the channel harness draws
DropScale == 2        \* drop_rate and the [0,1) draw are multiples of 1/DropScale

Idle == [idle |-> TRUE]   \* value of a variable a specification does not use

SysIdle ==
    /\ env = Idle /\ srv = Idle /\ srvNet = Idle
    /\ clients = Idle /\ cnet = Idle /\ trace = Idle

----------------------------------------------------------------------------
(* ticktimer.rs *)

I32Max == 2147483647

\* An increment that stays at the largest value instead of wrapping.
SaturatingInc(a) == IF a = I32Max THEN a ELSE a + 1

\* i32::wrapping_add(1): the successor in 32-bit two's complement
WrappingInc(a) == IF a = I32Max THEN (-I32Max) - 1 ELSE a + 1

I32Min == (-I32Max) - 1

\* a - b for i32 a and 0 <= b, in a build without overflow checks: the
\* difference in 32-bit two's complement
WrappingSub(a, b) ==
    IF a < I32Min + b THEN I32Max - ((b - 1) - (a - I32Min)) ELSE a - b

\* TickTimer::new
TickTimerNew(tick_interval, nowv) ==
    [tick_interval |-> tick_interval, timer |-> nowv,
     current_tick |-> 0, time_available |-> 0]

\* the while loop of TickTimer::tick
RECURSIVE TickLoop(_, _)
TickLoop(tt, ticks) ==
    IF tt.time_available >= tt.tick_interval
    THEN TickLoop([tt EXCEPT !.time_available = @ - tt.tick_interval,
                             !.current_tick = WrappingInc(@)],
                  Append(ticks, tt.current_tick))
    ELSE [tt |-> tt, ticks |-> ticks]

\* A timer that forgets the remainder instead of carrying it over.
TickTimerTickNoCarry(tt, nowv) ==
    TickLoop([tt EXCEPT !.timer = nowv, !.time_available = nowv - tt.timer], <<>>)

\* TickTimer::tick: the timer after the call and the ticks it returns
TickTimerTick(tt, nowv) ==
    LET frame_time == nowv - tt.timer
    IN  TickLoop([tt EXCEPT !.timer = nowv,
                            !.time_available = @ + frame_time], <<>>)

----------------------------------------------------------------------------
(* Harness of the TickTimer: tick() is called at arbitrary moments *)

TimerIntervals == {2, 3, 5}

TimerInit ==
    /\ now = 0
    /\ \E iv \in TimerIntervals :
         timerH = [tt |-> TickTimerNew(iv, 0), emitted |-> <<>>, calls |-> 0,
                   last |-> <<>>]
    /\ netH = Idle
    /\ simH = Idle
    /\ SysIdle

Advance(limit) ==
    /\ now < limit
    /\ now' = now + 1

TimerAdvance ==
    /\ Advance(MaxNow)
    /\ UNCHANGED <<timerH, netH, simH, sysVars>>

TimerTick ==
    /\ LET r == TickTimerTick(timerH.tt, now)
       IN  timerH' = [tt |-> r.tt, emitted |-> timerH.emitted \o r.ticks,
                      calls |-> IF timerH.calls < 2 THEN timerH.calls + 1 ELSE 2,
                      last |-> r.ticks]
    /\ UNCHANGED <<now, netH, simH, sysVars>>

TimerNext == TimerAdvance \/ TimerTick

SpecTimer == TimerInit /\ [][TimerNext]_vars

\* C1: Tick conservation.  After any sequence of tick() calls on a fresh timer
\* whose elapsed times sum to T (the time of the last call), the ticks emitted
\* over all the calls number floor(T / interval), however T was split into
\* calls, and what is left in the accumulator is the remainder T mod interval.
TickConservation ==
    /\ Len(timerH.emitted) = timerH.tt.timer \div timerH.tt.tick_interval
    /\ timerH.tt.time_available = timerH.tt.timer % timerH.tt.tick_interval

\* C1 witness: a total of at least two intervals was split over several calls,
\* one of which emitted nothing and left a carry that a later call used.
TickConservationWitness ==
    /\ timerH.calls >= 2
    /\ Len(timerH.emitted) >= 2
    /\ Len(timerH.last) = 1
    /\ timerH.tt.time_available > 0
    /\ timerH.tt.tick_interval = 3
    /\ timerH.tt.timer = 7

----------------------------------------------------------------------------
(* net.rs *)

None == <<>>
Some(x) == <<x>>

\* struct Message
Message(sequence, state, input) ==
    [sequence |-> sequence, state |-> state, input |-> input]

\* ReliableOrderedNetwork::new
ReliableNew(nowv) ==
    [messages |-> <<>>, timer |-> nowv, min_latency_ms |-> 0, max_latency_ms |-> 0]

\* UnreliableNetwork::new
UnreliableNew(nowv) ==
    [messages |-> <<>>, timer |-> nowv, min_latency_ms |-> 0, max_latency_ms |-> 0,
     drop_rate |-> 0]

\* rand::gen_range(min, max) on u64: a value of [min, max), and min when the
\* range is empty
LatencyRange(net) ==
    IF net.min_latency_ms >= net.max_latency_ms
    THEN {net.min_latency_ms}
    ELSE net.min_latency_ms .. (net.max_latency_ms - 1)

\* rand::gen_range(0.0, 1.0): a value of [0, 1), in units of 1/DropScale
DropDraws == 0 .. (DropScale - 1)

\* A send that pushes the message to the front of the queue.
EnqueueAtFront(net, nowv, sender_id, message, latency) ==
    [net EXCEPT !.messages =
        <<[delay |-> (nowv - net.timer) + latency,
           sender_id |-> sender_id, message |-> message]>> \o @]

\* the push_back of send: deliver-at time = channel clock + latency
Enqueue(net, nowv, sender_id, message, latency) ==
    [net EXCEPT !.messages =
        Append(@, [delay |-> (nowv - net.timer) + latency,
                   sender_id |-> sender_id, message |-> message])]

\* ReliableOrderedNetwork::send
ReliableSend(net, nowv, sender_id, message, latency) ==
    Enqueue(net, nowv, sender_id, message, latency)

\* A send that also drops when the draw equals the drop rate.
UnreliableSendDropsOnEqual(net, nowv, sender_id, message, draw, latency) ==
    IF draw <= net.drop_rate
    THEN net
    ELSE Enqueue(net, nowv, sender_id, message, latency)

\* UnreliableNetwork::send
UnreliableSend(net, nowv, sender_id, message, draw, latency) ==
    IF draw < net.drop_rate
    THEN net
    ELSE Enqueue(net, nowv, sender_id, message, latency)

\* A receive that returns the first entry whose delay has passed, wherever it
\* is in the queue (delivery-time order).
RECURSIVE FirstReady(_, _, _)
FirstReady(messages, elapsed, i) ==
    IF i > Len(messages) THEN 0
    ELSE IF messages[i].delay <= elapsed THEN i
    ELSE FirstReady(messages, elapsed, i + 1)

ReceiveAnyReady(net, nowv) ==
    LET i == FirstReady(net.messages, nowv - net.timer, 1)
    IN  IF i = 0
        THEN [net |-> net, result |-> None]
        ELSE [net |-> [net EXCEPT !.messages =
                          SubSeq(@, 1, i - 1) \o SubSeq(@, i + 1, Len(@))],
              result |-> Some([sender_id |-> net.messages[i].sender_id,
                               message |-> net.messages[i].message])]

\* A receive that pops the front and does not push it back when its delay has
\* not passed.
ReceiveLosesUndue(net, nowv) ==
    IF net.messages = <<>>
    THEN [net |-> net, result |-> None]
    ELSE LET front == Head(net.messages)
         IN  IF front.delay <= nowv - net.timer
             THEN [net |-> [net EXCEPT !.messages = Tail(@)],
                   result |-> Some([sender_id |-> front.sender_id,
                                    message |-> front.message])]
             ELSE [net |-> [net EXCEPT !.messages = Tail(@)], result |-> None]

\* UnreliableNetwork::receive and ReliableOrderedNetwork::receive (the same
\* code): pop the front; return it if its delay has passed, else push it back
Receive(net, nowv) ==
    IF net.messages = <<>>
    THEN [net |-> net, result |-> None]
    ELSE LET front == Head(net.messages)
         IN  IF front.delay <= nowv - net.timer
             THEN [net |-> [net EXCEPT !.messages = Tail(@)],
                   result |-> Some([sender_id |-> front.sender_id,
                                    message |-> front.message])]
             ELSE [net |-> net, result |-> None]

----------------------------------------------------------------------------
(* Harness of one channel: send and receive are called at arbitrary moments. *)
(* Message n of the harness is the n-th message passed to send.              *)

NetKinds == {"unreliable", "reliable"}

NetInit ==
    /\ now = 0
    /\ \E kind \in NetKinds, lo \in 0 .. MaxLatency, hi \in 0 .. MaxLatency,
          rate \in 0 .. DropScale :
         /\ lo <= hi
         /\ kind = "reliable" => rate = 0
         /\ netH = [kind |-> kind,
                    net |-> IF kind = "reliable"
                            THEN [ReliableNew(0) EXCEPT !.min_latency_ms = lo,
                                                        !.max_latency_ms = hi]
                            ELSE [UnreliableNew(0) EXCEPT !.min_latency_ms = lo,
                                                          !.max_latency_ms = hi,
                                                          !.drop_rate = rate],
                    sends |-> 0,          \* calls of send so far
                    enqueued |-> <<>>,    \* the messages send put in the queue
                    received |-> <<>>,    \* the messages receive returned
                    op |-> [name |-> "new"]]   \* the last call and what it saw
    /\ timerH = Idle
    /\ simH = Idle
    /\ SysIdle

NetAdvance ==
    /\ Advance(MaxNetNow)
    /\ UNCHANGED <<timerH, netH, simH, sysVars>>

NetSend ==
    /\ netH.sends < MaxSends
    /\ LET id == netH.sends + 1
           m == Message(id, None, None)
       IN  \E draw \in DropDraws, latency \in LatencyRange(netH.net) :
             LET after == IF netH.kind = "reliable"
                          THEN ReliableSend(netH.net, now, 0, m, latency)
                          ELSE UnreliableSend(netH.net, now, 0, m, draw, latency)
                 kept == after.messages # netH.net.messages
             IN  netH' = [netH EXCEPT
                     !.net = after,
                     !.sends = id,
                     !.enqueued = IF kept THEN Append(@, id) ELSE @,
                     !.op = [name |-> "send", id |-> id,
                             before |-> netH.net.messages]]
    /\ UNCHANGED <<now, timerH, simH, sysVars>>

NetReceive ==
    /\ LET r == Receive(netH.net, now)
       IN  netH' = [netH EXCEPT
               !.net = r.net,
               !.received = IF r.result = None THEN @
                            ELSE Append(@, r.result[1].message.sequence),
               !.op = [name |-> "receive", before |-> netH.net.messages,
                       elapsed |-> now - netH.net.timer, result |-> r.result]]
    /\ UNCHANGED <<now, timerH, simH, sysVars>>

NetNext == NetAdvance \/ NetSend \/ NetReceive

SpecNet == NetInit /\ [][NetNext]_vars

IsPrefix(s, t) == Len(s) <= Len(t) /\ SubSeq(t, 1, Len(s)) = s

\* C2: Channel head-blocking.  A receive call returns the front entry of the
\* queue exactly when that entry's deliver-at time is <= the channel clock
\* (op.elapsed, the clock the call read) and
\* removes only it; otherwise it returns nothing and leaves the queue as it
\* was.  Hence the messages received so far are always a prefix of the
\* messages enqueued, in send order.
HeadBlocking ==
    /\ IsPrefix(netH.received, netH.enqueued)
    /\ netH.op.name = "receive" =>
         LET before == netH.op.before
             ready == before # <<>> /\ Head(before).delay <= netH.op.elapsed
         IN  IF ready
             THEN /\ netH.op.result = Some([sender_id |-> Head(before).sender_id,
                                            message |-> Head(before).message])
                  /\ netH.net.messages = Tail(before)
             ELSE /\ netH.op.result = None
                  /\ netH.net.messages = before

\* C2 witness: A was sent before B, B's deliver-at time has passed and A's has
\* not, and a receive call has just returned nothing and left both queued.
HeadBlockingWitness ==
    /\ netH.op.name = "receive"
    /\ netH.op.result = None
    /\ Len(netH.net.messages) >= 2
    /\ netH.net.messages[1].delay > netH.op.elapsed
    /\ netH.net.messages[2].delay <= netH.op.elapsed

\* C3: Drop-rate boundary of UnreliableNetwork::send.  With drop_rate 1.0 no
\* send call enqueues anything, so nothing is ever received; with drop_rate
\* 0.0 every send call enqueues its message, appended at the tail, whatever
\* the draw.
DropRateBoundary ==
    netH.kind = "unreliable" =>
      /\ netH.net.drop_rate = DropScale =>
           /\ netH.net.messages = <<>>
           /\ netH.enqueued = <<>>
           /\ netH.received = <<>>
      /\ netH.net.drop_rate = 0 =>
           /\ Len(netH.enqueued) = netH.sends
           /\ netH.op.name = "send" =>
                /\ Len(netH.net.messages) = Len(netH.op.before) + 1
                /\ SubSeq(netH.net.messages, 1, Len(netH.op.before)) = netH.op.before
                /\ netH.net.messages[Len(netH.net.messages)].message.sequence
                     = netH.op.id

\* C3 witness: on a channel with drop_rate 0.0 every one of the send calls
\* has enqueued, the last one behind an entry already queued.
DropRateBoundaryWitness ==
    /\ netH.kind = "unreliable"
    /\ netH.net.drop_rate = 0
    /\ netH.op.name = "send"
    /\ netH.sends = MaxSends
    /\ Len(netH.op.before) >= 1
    /\ Len(netH.net.messages) = Len(netH.op.before) + 1

----------------------------------------------------------------------------
(* sim.rs *)

\* An f32 as an exact rational <<numerator, denominator>> in lowest terms.
Abs(n) == IF n < 0 THEN -n ELSE n

RECURSIVE GCD(_, _)
GCD(a, b) == IF b = 0 THEN a ELSE GCD(b, a % b)

Rat(n, d) == LET g == GCD(Abs(n), d) IN <<n \div g, d \div g>>
Whole(k) == <<k, 1>>
RatAddInt(r, k) == <<r[1] + k * r[2], r[2]>>

Pos(x, y) == [x |-> Whole(x), y |-> Whole(y)]

\* struct Input
Input(left, right, up, down) ==
    [left |-> left, right |-> right, up |-> up, down |-> down]

AllInputs == [left : BOOLEAN, right : BOOLEAN, up : BOOLEAN, down : BOOLEAN]

\* the speed every Entity is built with
Speed == 5

\* Entity::new
EntityNew == [position |-> Pos(0, 0), speed |-> Speed, colour |-> "Red"]

\* An integration that takes the four directions as alternatives.
IntegrateInputExclusive(entity, input) ==
    IF input.left
    THEN [entity EXCEPT !.position.x = RatAddInt(@, -entity.speed)]
    ELSE IF input.right
    THEN [entity EXCEPT !.position.x = RatAddInt(@, entity.speed)]
    ELSE IF input.up
    THEN [entity EXCEPT !.position.y = RatAddInt(@, -entity.speed)]
    ELSE IF input.down
    THEN [entity EXCEPT !.position.y = RatAddInt(@, entity.speed)]
    ELSE entity

\* Entity::integrate_input: four independent ifs, in this order
IntegrateInput(entity, input) ==
    LET e1 == IF input.left
              THEN [entity EXCEPT !.position.x = RatAddInt(@, -entity.speed)]
              ELSE entity
        e2 == IF input.right
              THEN [e1 EXCEPT !.position.x = RatAddInt(@, e1.speed)]
              ELSE e1
        e3 == IF input.up
              THEN [e2 EXCEPT !.position.y = RatAddInt(@, -e2.speed)]
              ELSE e2
        e4 == IF input.down
              THEN [e3 EXCEPT !.position.y = RatAddInt(@, e3.speed)]
              ELSE e3
    IN  e4

----------------------------------------------------------------------------
(* Harness of integrate_input: two entities with the same start are fed the *)
(* same input sequence, each at its own pace, while the clock runs.         *)

MaxInputs == 2        \* length of the input sequence
MaxSimNow == 2        \* clock horizon of this harness

SimStarts == {Pos(0, 0), Pos(100, 100)}

SimInit ==
    /\ now = 0
    /\ \E start \in SimStarts :
         simH = [start |-> start,
                 a |-> [EntityNew EXCEPT !.position = start],
                 b |-> [EntityNew EXCEPT !.position = start],
                 inputs |-> <<>>, ia |-> 0, ib |-> 0]
    /\ timerH = Idle
    /\ netH = Idle
    /\ SysIdle

SimAdvance ==
    /\ Advance(MaxSimNow)
    /\ UNCHANGED <<timerH, netH, simH, sysVars>>

\* the input source yields the next Input of the shared sequence
SimFeed ==
    /\ Len(simH.inputs) < MaxInputs
    /\ \E input \in AllInputs : simH' = [simH EXCEPT !.inputs = Append(@, input)]
    /\ UNCHANGED <<now, timerH, netH, sysVars>>

SimIntegrateA ==
    /\ simH.ia < Len(simH.inputs)
    /\ simH' = [simH EXCEPT !.a = IntegrateInput(@, simH.inputs[simH.ia + 1]),
                            !.ia = @ + 1]
    /\ UNCHANGED <<now, timerH, netH, sysVars>>

SimIntegrateB ==
    /\ simH.ib < Len(simH.inputs)
    /\ simH' = [simH EXCEPT !.b = IntegrateInput(@, simH.inputs[simH.ib + 1]),
                            !.ib = @ + 1]
    /\ UNCHANGED <<now, timerH, netH, sysVars>>

SimNext == SimAdvance \/ SimFeed \/ SimIntegrateA \/ SimIntegrateB

SpecSim == SimInit /\ [][SimNext]_vars

\* how many of the first n inputs have direction `dir` set
RECURSIVE CountDir(_, _, _)
CountDir(inputs, n, dir) ==
    IF n = 0 THEN 0
    ELSE CountDir(inputs, n - 1, dir) + (IF inputs[n][dir] THEN 1 ELSE 0)

\* the start moved by the first n inputs, each direction counted on its own
Displaced(start, inputs, n) ==
    [x |-> RatAddInt(start.x,
             Speed * (CountDir(inputs, n, "right") - CountDir(inputs, n, "left"))),
     y |-> RatAddInt(start.y,
             Speed * (CountDir(inputs, n, "down") - CountDir(inputs, n, "up")))]

\* C7: Deterministic integration.  Two entities with the same start and speed
\* that have applied the same number of inputs of the same sequence are at the
\* same position, whatever the interleaving of their calls and the time
\* passed; each input moves x by -speed per left and +speed per right, and y
\* by -speed per up and +speed per down, independently (no normalisation).
DeterministicIntegration ==
    /\ simH.ia = simH.ib => simH.a.position = simH.b.position
    /\ simH.a.position = Displaced(simH.start, simH.inputs, simH.ia)
    /\ simH.b.position = Displaced(simH.start, simH.inputs, simH.ib)

\* C7 witness: both entities have applied the whole sequence, which holds a
\* diagonal input, time has passed, and they have moved on both axes.
DeterministicIntegrationWitness ==
    /\ Len(simH.inputs) = MaxInputs
    /\ simH.ia = MaxInputs /\ simH.ib = MaxInputs
    /\ simH.inputs[1] = Input(FALSE, TRUE, FALSE, TRUE)
    /\ now > 0
    /\ simH.a.position.x # simH.start.x /\ simH.a.position.y # simH.start.y
    /\ simH.a.position = simH.b.position

----------------------------------------------------------------------------
(* client.rs: the Client and its pipeline *)

\* HashMap insert
MapPut(m, k, v) == [x \in (DOMAIN m) \cup {k} |-> IF x = k THEN v ELSE m[x]]

\* struct State (net.rs)
State(tick, entity_id, position, colour) ==
    [tick |-> tick, entity_id |-> entity_id, position |-> position,
     colour |-> colour]

\* the smoothing_rate of interpolate_entities
SmoothingRate == 10

\* Client::new.  server_network is TRUE for Some(handle of the server's
\* network) and FALSE for None; the client's own network is cnet[id].
ClientNew(id, tick_rate_ms, nowv) ==
    [id |-> id,
     tick_timer |-> TickTimerNew(tick_rate_ms, nowv),
     tick_rate_ms |-> tick_rate_ms,
     server_network |-> FALSE,
     entities |-> <<>>,
     controlled_entity |-> None,
     input_state |-> None,
     input_history |-> <<>>,
     last_message_sequence |-> 0,
     client_prediction_enabled |-> TRUE,
     server_reconciliation_enabled |-> TRUE,
     extrapolation_enabled |-> TRUE,
     state_snapshots |-> <<>>,
     colour |-> "Red",
     connected |-> FALSE]

\* A replay loop that stops before the newest kept input.
RECURSIVE ReplayAllButLast(_, _, _)
ReplayAllButLast(entity, history, i) ==
    IF i >= Len(history) THEN entity
    ELSE ReplayAllButLast(IntegrateInput(entity, history[i].input), history, i + 1)

\* the replay loop of reconciliation: integrate every kept input, in order
RECURSIVE Replay(_, _, _)
Replay(entity, history, i) ==
    IF i > Len(history) THEN entity
    ELSE Replay(IntegrateInput(entity, history[i].input), history, i + 1)

KeepFrom(history, last_sync_tick) ==
    SelectSeq(history, LAMBDA h : h.tick >= last_sync_tick)

\* A loop body that pushes a remote state to the front of the snapshot buffer.
ApplyStatePushesFront(c, state, tick) ==
    LET id == state.entity_id
        c1 == IF id \notin DOMAIN c.entities
              THEN [c EXCEPT !.entities =
                       MapPut(@, id, [position |-> state.position,
                                      speed |-> Speed, colour |-> state.colour])]
              ELSE c
    IN  IF c1.controlled_entity = Some(id)
        THEN LET c2 == [c1 EXCEPT !.entities[id].position = state.position]
             IN  IF c2.server_reconciliation_enabled
                 THEN LET kept == KeepFrom(c2.input_history, state.tick + 1)
                      IN  [c2 EXCEPT !.input_history = kept,
                                     !.entities[id] = Replay(@, kept, 1)]
                 ELSE [c2 EXCEPT !.input_history = <<>>]
        ELSE IF c1.extrapolation_enabled
             THEN [c1 EXCEPT !.state_snapshots =
                      <<[tick |-> tick, state |-> state]>> \o @]
             ELSE [c1 EXCEPT !.entities[id].position = state.position]

\* A loop body that replays the input history before clearing it when
\* reconciliation is disabled.
ApplyStateReplaysBeforeClear(c, state, tick) ==
    LET id == state.entity_id
        c1 == IF id \notin DOMAIN c.entities
              THEN [c EXCEPT !.entities =
                       MapPut(@, id, [position |-> state.position,
                                      speed |-> Speed, colour |-> state.colour])]
              ELSE c
    IN  IF c1.controlled_entity = Some(id)
        THEN LET c2 == [c1 EXCEPT !.entities[id].position = state.position]
             IN  IF c2.server_reconciliation_enabled
                 THEN LET kept == KeepFrom(c2.input_history, state.tick + 1)
                      IN  [c2 EXCEPT !.input_history = kept,
                                     !.entities[id] = Replay(@, kept, 1)]
                 ELSE [c2 EXCEPT !.input_history = <<>>,
                                 !.entities[id] = Replay(@, c2.input_history, 1)]
        ELSE IF c1.extrapolation_enabled
             THEN [c1 EXCEPT !.state_snapshots =
                      Append(@, [tick |-> tick, state |-> state])]
             ELSE [c1 EXCEPT !.entities[id].position = state.position]

\* the body of `for state in world_state` in process_server_messages
ApplyState(c, state, tick) ==
    LET id == state.entity_id
        c1 == IF id \notin DOMAIN c.entities
              THEN [c EXCEPT !.entities =
                       MapPut(@, id, [position |-> state.position,
                                      speed |-> Speed, colour |-> state.colour])]
              ELSE c
    IN  IF c1.controlled_entity = Some(id)
        THEN LET c2 == [c1 EXCEPT !.entities[id].position = state.position]
             IN  IF c2.server_reconciliation_enabled
                 THEN LET kept == KeepFrom(c2.input_history, state.tick + 1)
                      IN  [c2 EXCEPT !.input_history = kept,
                                     !.entities[id] = Replay(@, kept, 1)]
                 ELSE [c2 EXCEPT !.input_history = <<>>]
        ELSE IF c1.extrapolation_enabled
             THEN [c1 EXCEPT !.state_snapshots =
                      Append(@, [tick |-> tick, state |-> state])]
             ELSE [c1 EXCEPT !.entities[id].position = state.position]

RECURSIVE ApplyStates(_, _, _, _)
ApplyStates(c, world_state, i, tick) ==
    IF i > Len(world_state) THEN c
    ELSE ApplyStates(ApplyState(c, world_state[i], tick), world_state, i + 1, tick)

\* A staleness filter that also discards a message whose sequence equals the
\* last one processed.
IsStaleOrEqual(sequence, last_message_sequence) ==
    sequence <= last_message_sequence

\* the staleness test of process_server_messages
IsStale(sequence, last_message_sequence) ==
    sequence < last_message_sequence

\* the body of the receive loop of process_server_messages, for one message
ProcessMessage(c, message, tick) ==
    IF IsStale(message.sequence, c.last_message_sequence)
    THEN c
    ELSE LET c1 == [c EXCEPT !.last_message_sequence = message.sequence]
         IN  IF message.state = None THEN c1
             ELSE ApplyStates(c1, message.state[1], 1, tick)

\* what one message did to the client, for the claims: the message, the
\* high-water mark before and after it, whether it touched the entities, the
\* input history or the snapshots, whether every entity it names is in the
\* mirror afterwards, and how many snapshots it pushed
Verdict(before, message, after) ==
    [message |-> message,
     mark_before |-> before.last_message_sequence,
     mark_after |-> after.last_message_sequence,
     touched |-> \/ after.entities # before.entities
                 \/ after.input_history # before.input_history
                 \/ after.state_snapshots # before.state_snapshots,
     known |-> message.state # None =>
                 \A i \in DOMAIN message.state[1] :
                    message.state[1][i].entity_id \in DOMAIN after.entities,
     pushed |-> Len(after.state_snapshots) - Len(before.state_snapshots)]

\* Client::process_server_messages: receive until the channel yields nothing
RECURSIVE ProcessServerMessages(_, _, _, _, _)
ProcessServerMessages(c, net, tick, nowv, log) ==
    LET r == Receive(net, nowv)
    IN  IF r.result = None
        THEN [c |-> c, net |-> net, log |-> log]
        ELSE LET message == r.result[1].message
                 after == ProcessMessage(c, message, tick)
             IN  ProcessServerMessages(after, r.net, tick, nowv,
                                       Append(log, Verdict(c, message, after)))

\* A pruning loop that tests the front entry's tick instead of the second's.
RECURSIVE PruneSnapshotsByFront(_, _)
PruneSnapshotsByFront(snapshots, render_tick) ==
    IF Len(snapshots) >= 2 /\ snapshots[1].tick <= render_tick
    THEN PruneSnapshotsByFront(Tail(snapshots), render_tick)
    ELSE snapshots

\* the pruning loop of interpolate_entities: drop the front while a second
\* entry exists and its tick is <= render_tick
RECURSIVE PruneSnapshots(_, _)
PruneSnapshots(snapshots, render_tick) ==
    IF Len(snapshots) >= 2 /\ snapshots[2].tick <= render_tick
    THEN PruneSnapshots(Tail(snapshots), render_tick)
    ELSE snapshots

\* x0 + (x1 - x0) * (time_since_snapshot / delta), exactly
Lerp(x0, x1, time_since_snapshot, delta) ==
    Rat(x0[1] * x1[2] * delta
          + (x1[1] * x0[2] - x0[1] * x1[2]) * time_since_snapshot,
        x0[2] * x1[2] * delta)

\* An interpolation that does not require the older snapshot to be at or
\* before render_tick.
InterpolateEntityNoLowerBound(c, id, tick) ==
    LET render_tick == WrappingSub(tick, SmoothingRate)
    IN  IF c.controlled_entity = Some(id) THEN c
        ELSE IF Len(c.state_snapshots) < 2 THEN c
        ELSE LET pruned == PruneSnapshots(c.state_snapshots, render_tick)
                 c1 == [c EXCEPT !.state_snapshots = pruned]
             IN  IF Len(pruned) < 2 THEN c1
                 ELSE LET s1 == pruned[1]
                          s2 == pruned[2]
                      IN  IF s2.tick >= render_tick /\ s2.tick > s1.tick
                          THEN [c1 EXCEPT !.entities[id].position =
                                  [x |-> Lerp(s1.state.position.x,
                                              s2.state.position.x,
                                              render_tick - s1.tick,
                                              s2.tick - s1.tick),
                                   y |-> Lerp(s1.state.position.y,
                                              s2.state.position.y,
                                              render_tick - s1.tick,
                                              s2.tick - s1.tick)]]
                          ELSE c1

\* A loop body that does not drop the older snapshots before it takes the
\* front pair.
InterpolateEntityNoPrune(c, id, tick) ==
    LET render_tick == WrappingSub(tick, SmoothingRate)
    IN  IF c.controlled_entity = Some(id) THEN c
        ELSE IF Len(c.state_snapshots) < 2 THEN c
        ELSE LET s1 == c.state_snapshots[1]
                 s2 == c.state_snapshots[2]
             IN  IF s1.tick <= render_tick /\ s2.tick >= render_tick
                    /\ s2.tick > s1.tick
                 THEN [c EXCEPT !.entities[id].position =
                         [x |-> Lerp(s1.state.position.x, s2.state.position.x,
                                     render_tick - s1.tick, s2.tick - s1.tick),
                          y |-> Lerp(s1.state.position.y, s2.state.position.y,
                                     render_tick - s1.tick, s2.tick - s1.tick)]]
                 ELSE c

\* the body of the entity loop of interpolate_entities, for entity id
InterpolateEntity(c, id, tick) ==
    LET render_tick == WrappingSub(tick, SmoothingRate)
    IN  IF c.controlled_entity = Some(id) THEN c
        ELSE IF Len(c.state_snapshots) < 2 THEN c
        ELSE LET pruned == PruneSnapshots(c.state_snapshots, render_tick)
                 c1 == [c EXCEPT !.state_snapshots = pruned]
             IN  IF Len(pruned) < 2 THEN c1
                 ELSE LET s1 == pruned[1]
                          s2 == pruned[2]
                      IN  IF s1.tick <= render_tick /\ s2.tick >= render_tick
                          THEN [c1 EXCEPT !.entities[id].position =
                                  [x |-> Lerp(s1.state.position.x,
                                              s2.state.position.x,
                                              render_tick - s1.tick,
                                              s2.tick - s1.tick),
                                   y |-> Lerp(s1.state.position.y,
                                              s2.state.position.y,
                                              render_tick - s1.tick,
                                              s2.tick - s1.tick)]]
                          ELSE c1

\* Client::interpolate_entities: every entity of the local mirror in turn.
\* (The HashMap's iteration order does not matter: the first uncontrolled
\* entity prunes the shared buffer and the others find it pruned.)
RECURSIVE InterpolateOver(_, _, _)
InterpolateOver(c, ids, tick) ==
    IF ids = {} THEN c
    ELSE LET id == CHOOSE x \in ids : \A y \in ids : x <= y
         IN  InterpolateOver(InterpolateEntity(c, id, tick), ids \ {id}, tick)

InterpolateEntities(c, tick) == InterpolateOver(c, DOMAIN c.entities, tick)

\* Client::get_input: keys is what is_key_down reports for the four keys
GetInput(c, keys) ==
    IF keys.left \/ keys.right \/ keys.up \/ keys.down
    THEN [c EXCEPT !.input_state = Some(keys)]
    ELSE c

\* A process_input that reads the pending input without clearing it.
ProcessInputKeepsPending(c, snet, nowv, draw, latency) ==
    IF ~c.server_network \/ c.input_state = None
    THEN [c |-> c, snet |-> snet]
    ELSE LET input_state == c.input_state[1]
             message == Message(c.tick_timer.current_tick, None,
                                Some(<<input_state.left, input_state.right,
                                       input_state.up, input_state.down>>))
             ctrl == c.controlled_entity[1]
             c2 == IF c.client_prediction_enabled /\ ctrl \in DOMAIN c.entities
                   THEN [c EXCEPT !.entities[ctrl] = IntegrateInput(@, input_state)]
                   ELSE c
         IN  [c |-> [c2 EXCEPT !.input_history =
                        Append(@, [tick |-> c.tick_timer.current_tick,
                                   input |-> input_state])],
              snet |-> UnreliableSend(snet, nowv, c.id, message, draw, latency)]

\* Client::process_input.  The sequence sent and the tick stored are the
\* timer's current_tick, which tick() has already advanced past every tick it
\* returned for this frame.
ProcessInput(c, snet, nowv, draw, latency) ==
    IF ~c.server_network \/ c.input_state = None
    THEN [c |-> c, snet |-> snet]
    ELSE LET input_state == c.input_state[1]
             message == Message(c.tick_timer.current_tick, None,
                                Some(<<input_state.left, input_state.right,
                                       input_state.up, input_state.down>>))
             ctrl == c.controlled_entity[1]
             c1 == [c EXCEPT !.input_state = None]
             c2 == IF c1.client_prediction_enabled /\ ctrl \in DOMAIN c1.entities
                   THEN [c1 EXCEPT !.entities[ctrl] = IntegrateInput(@, input_state)]
                   ELSE c1
         IN  [c |-> [c2 EXCEPT !.input_history =
                        Append(@, [tick |-> c.tick_timer.current_tick,
                                   input |-> input_state])],
              snet |-> UnreliableSend(snet, nowv, c.id, message, draw, latency)]

\* the body of the tick loop of Client::update; st is [c, net, snet, log]
ClientTick(st, tick, nowv, draw, latency) ==
    LET p == ProcessServerMessages(st.c, st.net, tick, nowv, st.log)
    IN  IF p.c.controlled_entity = None
        THEN [st EXCEPT !.c = p.c, !.net = p.net, !.log = p.log]
        ELSE LET c1 == IF p.c.extrapolation_enabled
                       THEN InterpolateEntities(p.c, tick)
                       ELSE p.c
                 q == ProcessInput(c1, st.snet, nowv, draw, latency)
             IN  [c |-> q.c, net |-> p.net, snet |-> q.snet, log |-> p.log]

RECURSIVE ClientTicks(_, _, _, _, _, _)
ClientTicks(st, ticks, i, nowv, draw, latency) ==
    IF i > Len(ticks) THEN st
    ELSE ClientTicks(ClientTick(st, ticks[i], nowv, draw, latency),
                     ticks, i + 1, nowv, draw, latency)

\* An update that runs whether or not the client is connected.
ClientUpdateUngated(c, net, snet, nowv, keys, draw, latency) ==
    LET c1 == GetInput(c, keys)
        t == TickTimerTick(c1.tick_timer, nowv)
    IN  ClientTicks([c |-> [c1 EXCEPT !.tick_timer = t.tt], net |-> net,
                     snet |-> snet, log |-> <<>>],
                    t.ticks, 1, nowv, draw, latency)

\* Client::update: the client, its network and the server's network after the
\* call, and the verdicts on the messages it received.  draw and latency are
\* the random values of the one send the call can make.
ClientUpdate(c, net, snet, nowv, keys, draw, latency) ==
    IF ~c.connected
    THEN [c |-> c, net |-> net, snet |-> snet, log |-> <<>>]
    ELSE LET c1 == GetInput(c, keys)
             t == TickTimerTick(c1.tick_timer, nowv)
         IN  ClientTicks([c |-> [c1 EXCEPT !.tick_timer = t.tt], net |-> net,
                          snet |-> snet, log |-> <<>>],
                         t.ticks, 1, nowv, draw, latency)

----------------------------------------------------------------------------
(* server.rs: the Server and its authoritative loop *)

\* World::new and Server::new.  connected_clients is the set of client ids
\* whose network handle the server holds (the network itself is cnet[id]);
\* the server's own network is srvNet.
ServerNew(tick_rate_ms, nowv) ==
    [id |-> 0,
     tick_timer |-> TickTimerNew(tick_rate_ms, nowv),
     tick_rate_ms |-> tick_rate_ms,
     connected_clients |-> {},
     world |-> [entities |-> <<>>, latest_entity_id |-> 0],
     npc_entities |-> <<>>,
     networked_players |-> <<>>,
     last_processed_input |-> <<>>,
     panicked |-> FALSE]

\* World::add_entity
AddEntity(world, entity) ==
    [entities |-> MapPut(world.entities, world.latest_entity_id + 1, entity),
     latest_entity_id |-> world.latest_entity_id + 1]

\* Server::create_npc_entities
CreateNpcEntities(server) ==
    LET w == AddEntity(server.world,
                       [EntityNew EXCEPT !.position = Pos(100, 100),
                                         !.colour = "Blue"])
    IN  [server EXCEPT !.world = w,
                       !.npc_entities = Append(@, w.latest_entity_id)]

\* (angle.cos() * 5.0, angle.sin() * 5.0) for angle = tick * tick_rate_ms / 1000,
\* rounded to whole units by the small-angle values cos = 1, sin = angle: the
\* NPC's path is a function of the tick number alone, as in the code, but it is
\* not the code's circle.
NpcStep(tick, tick_rate_ms) ==
    [dx |-> 5, dy |-> (5 * tick * tick_rate_ms) \div 1000]

\* Server::update_npc_entities
RECURSIVE UpdateNpcEntities(_, _, _)
UpdateNpcEntities(server, i, tick) ==
    IF i > Len(server.npc_entities) THEN server
    ELSE LET npc_id == server.npc_entities[i]
             step == NpcStep(tick, server.tick_rate_ms)
         IN  IF npc_id \notin DOMAIN server.world.entities
             THEN [server EXCEPT !.panicked = TRUE]
             ELSE UpdateNpcEntities(
                    [server EXCEPT
                       !.world.entities[npc_id].position.x = RatAddInt(@, step.dx),
                       !.world.entities[npc_id].position.y = RatAddInt(@, step.dy)],
                    i + 1, tick)

\* A connect that creates an entity only in an empty world and otherwise hands
\* out the entity created last.
ServerConnectReusesEntity(server, c) ==
    LET w == IF server.world.latest_entity_id = 0
             THEN AddEntity(server.world,
                            [EntityNew EXCEPT !.position = Pos(0, 0),
                                              !.colour = c.colour])
             ELSE server.world
    IN  [server EXCEPT
           !.connected_clients = @ \cup {c.id},
           !.world = w,
           !.networked_players = MapPut(@, c.id, w.latest_entity_id)]

\* A connect that creates the entity but does not record which entity the
\* client's network id stands for.
ServerConnectNoMapping(server, c) ==
    LET w == AddEntity(server.world,
                       [EntityNew EXCEPT !.position = Pos(0, 0),
                                         !.colour = c.colour])
    IN  [server EXCEPT
           !.connected_clients = @ \cup {c.id},
           !.world = w]

\* Server::connect: the server afterwards; the entity id it returns is
\* world.latest_entity_id
ServerConnect(server, c) ==
    LET w == AddEntity(server.world,
                       [EntityNew EXCEPT !.position = Pos(0, 0),
                                         !.colour = c.colour])
    IN  [server EXCEPT
           !.connected_clients = @ \cup {c.id},
           !.world = w,
           !.networked_players = MapPut(@, c.id, w.latest_entity_id)]

\* the three assignments to one network's public fields in Client::connect
Configure(net, min_latency_ms, max_latency_ms, drop_rate) ==
    [net EXCEPT !.min_latency_ms = min_latency_ms,
                !.max_latency_ms = max_latency_ms,
                !.drop_rate = drop_rate]

\* Client::connect: server.get_network() hands every client the same network
ClientConnect(c, server, net, snet, min_latency_ms, max_latency_ms, drop_rate) ==
    LET sv == ServerConnect(server, c)
    IN  [c |-> [c EXCEPT !.server_network = TRUE,
                         !.controlled_entity = Some(sv.world.latest_entity_id),
                         !.connected = TRUE],
         server |-> sv,
         net |-> Configure(net, min_latency_ms, max_latency_ms, drop_rate),
         snet |-> Configure(snet, min_latency_ms, max_latency_ms, drop_rate)]

\* A receive loop body that integrates the input into the entity of every
\* player, not only the sender's.
ProcessClientMessageAllPlayers(server, client_id, message) ==
    IF client_id \notin DOMAIN server.networked_players
    THEN [server EXCEPT !.panicked = TRUE]
    ELSE LET players == {server.networked_players[id] :
                           id \in DOMAIN server.networked_players}
             input == Input(message.input[1][1], message.input[1][2],
                            message.input[1][3], message.input[1][4])
             sv == IF message.input = None THEN server
                   ELSE [server EXCEPT !.world.entities =
                           [e \in DOMAIN @ |->
                              IF e \in players THEN IntegrateInput(@[e], input)
                              ELSE @[e]]]
         IN  [sv EXCEPT !.last_processed_input =
                           MapPut(@, client_id, message.sequence)]

\* the body of the receive loop of process_client_messages, for one message
ProcessClientMessage(server, client_id, message) ==
    IF client_id \notin DOMAIN server.networked_players
    THEN [server EXCEPT !.panicked = TRUE]
    ELSE LET local_entity_id == server.networked_players[client_id]
         IN  IF local_entity_id \notin DOMAIN server.world.entities
             THEN [server EXCEPT !.panicked = TRUE]
             ELSE LET sv == IF message.input = None THEN server
                            ELSE [server EXCEPT
                                    !.world.entities[local_entity_id] =
                                      IntegrateInput(@,
                                        Input(message.input[1][1],
                                              message.input[1][2],
                                              message.input[1][3],
                                              message.input[1][4]))]
                  IN  [sv EXCEPT !.last_processed_input =
                                    MapPut(@, client_id, message.sequence)]

\* Server::process_client_messages
RECURSIVE ProcessClientMessages(_, _, _)
ProcessClientMessages(server, snet, nowv) ==
    LET r == Receive(snet, nowv)
    IN  IF r.result = None \/ server.panicked
        THEN [server |-> server, snet |-> snet]
        ELSE ProcessClientMessages(
               ProcessClientMessage(server, r.result[1].sender_id,
                                    r.result[1].message),
               r.net, nowv)

\* the entity ids in the order the world's HashMap is iterated: ascending or
\* descending, as env.order says
RECURSIVE IterationOrder(_, _)
IterationOrder(ids, order) ==
    IF ids = {} THEN <<>>
    ELSE LET id == IF order = "ascending"
                   THEN CHOOSE x \in ids : \A y \in ids : x <= y
                   ELSE CHOOSE x \in ids : \A y \in ids : x >= y
         IN  <<id>> \o IterationOrder(ids \ {id}, order)

\* State::tick in broadcast_state.  The struct literal (server.rs 142-146)
\* names entity_id, position and colour and gives tick no value; the values in
\* scope that complete it are the type's Default (0) and broadcast_state's
\* otherwise unused parameter tick.  env.state_tick says which one the build is.
StateTick(tick, state_tick) == IF state_tick = "default" THEN 0 ELSE tick

\* A snapshot that leaves the scripted entities out.
WorldStateNoNpc(server, tick, e) ==
    LET npcs == {server.npc_entities[i] : i \in DOMAIN server.npc_entities}
        ids == IterationOrder(DOMAIN server.world.entities \ npcs, e.order)
    IN  [i \in DOMAIN ids |->
           State(StateTick(tick, e.state_tick), ids[i],
                 server.world.entities[ids[i]].position,
                 server.world.entities[ids[i]].colour)]

\* the first loop of broadcast_state: one State per entity of the world
WorldState(server, tick, e) ==
    LET ids == IterationOrder(DOMAIN server.world.entities, e.order)
    IN  [i \in DOMAIN ids |->
           State(StateTick(tick, e.state_tick), ids[i],
                 server.world.entities[ids[i]].position,
                 server.world.entities[ids[i]].colour)]

\* unwrap_or(&0) on last_processed_input
LastProcessedTick(server, client_id) ==
    IF client_id \in DOMAIN server.last_processed_input
    THEN server.last_processed_input[client_id]
    ELSE 0

\* the message broadcast_state builds for one client
BroadcastMessage(server, client_id, world_state) ==
    Message(LastProcessedTick(server, client_id), Some(world_state), None)

\* the second loop of broadcast_state: one send per connected client; rnd
\* gives each client's draw and latency
BroadcastState(server, nets, tick, nowv, e, rnd) ==
    LET world_state == WorldState(server, tick, e)
    IN  [id \in DOMAIN nets |->
           IF id \in server.connected_clients
           THEN UnreliableSend(nets[id], nowv, server.id,
                               BroadcastMessage(server, id, world_state),
                               rnd[id].draw, rnd[id].latency)
           ELSE nets[id]]

\* the send calls of one broadcast, for the claims
BroadcastCalls(server, tick, e) ==
    LET world_state == WorldState(server, tick, e)
    IN  [id \in server.connected_clients |->
           [tick |-> tick, message |-> BroadcastMessage(server, id, world_state)]]

\* the body of the tick loop of Server::update; st is [server, snet, nets, calls]
ServerTick(st, tick, nowv, e, rnd) ==
    LET s1 == UpdateNpcEntities(st.server, 1, tick)
        p == ProcessClientMessages(s1, st.snet, nowv)
    IN  [server |-> p.server, snet |-> p.snet,
         nets |-> BroadcastState(p.server, st.nets, tick, nowv, e, rnd),
         calls |-> Append(st.calls, BroadcastCalls(p.server, tick, e))]

RECURSIVE ServerTicks(_, _, _, _, _, _)
ServerTicks(st, ticks, i, nowv, e, rnds) ==
    IF i > Len(ticks) THEN st
    ELSE ServerTicks(ServerTick(st, ticks[i], nowv, e, rnds[i]),
                     ticks, i + 1, nowv, e, rnds)

\* Server::update; rnds[i] holds the random values of the i-th tick's sends
ServerUpdate(server, snet, nets, nowv, e, rnds) ==
    LET t == TickTimerTick(server.tick_timer, nowv)
    IN  ServerTicks([server |-> [server EXCEPT !.tick_timer = t.tt],
                     snet |-> snet, nets |-> nets, calls |-> <<>>],
                    t.ticks, 1, nowv, e, rnds)

----------------------------------------------------------------------------
(* Harness of interpolate_entities: a connected client that controls entity *)
(* 1 and mirrors entities 2 and 3, with a snapshot buffer as the receive    *)
(* loop can have left it (ticks in arrival order, none later than the       *)
(* current tick), runs interpolate_entities for later and later ticks.      *)

MaxSnaps == 3         \* longest snapshot buffer the harness starts from

SnapTicks == {10, 20, 25, 30}
SnapPositions == {Pos(0, 0), Pos(10, 0)}
InterpTicks == {25, 30, 35, 40}
HeldPosition == Pos(50, 50)

Snapshots ==
    [tick : SnapTicks,
     state : {State(0, id, p, "Green") : id \in {2, 3}, p \in SnapPositions}]

SnapshotBuffers ==
    {b \in UNION {[1 .. n -> Snapshots] : n \in 0 .. MaxSnaps} :
        \A i \in DOMAIN b : i > 1 => b[i - 1].tick <= b[i].tick}

InterpInit ==
    /\ now = 0
    /\ timerH = Idle /\ netH = Idle /\ simH = Idle
    /\ env = Idle /\ srv = Idle /\ srvNet = Idle /\ cnet = Idle
    /\ \E b \in SnapshotBuffers :
         clients = [id \in {1} |->
            [ClientNew(1, 1, 0) EXCEPT
               !.connected = TRUE,
               !.server_network = TRUE,
               !.controlled_entity = Some(1),
               !.entities = [e \in {1, 2, 3} |->
                               [EntityNew EXCEPT !.position =
                                  IF e = 1 THEN Pos(0, 0) ELSE HeldPosition]],
               !.state_snapshots = b]]
    /\ trace = [name |-> "new", tick |-> 0]

InterpStep ==
    /\ \E tick \in InterpTicks :
         /\ tick > trace.tick
         /\ \A i \in DOMAIN clients[1].state_snapshots :
               clients[1].state_snapshots[i].tick <= tick
         /\ clients' = [clients EXCEPT ![1] = InterpolateEntities(@, tick)]
         /\ trace' = [name |-> "interpolate_entities", tick |-> tick,
                      before |-> clients[1]]
    /\ UNCHANGED <<now, timerH, netH, simH, env, srv, srvNet, cnet>>

InterpNext == InterpStep

SpecInterp == InterpInit /\ [][InterpNext]_vars

\* r = a + (b - a) * k / delta, for rationals r, a, b and integers k, delta
IsLerp(r, a, b, k, delta) ==
    r[1] * a[2] * b[2] * delta
      = r[2] * (a[1] * b[2] * delta + (b[1] * a[2] - a[1] * b[2]) * k)

\* C6: Interpolation bracketing.  After interpolate_entities(tick), with
\* render_tick = tick - 10: if the two oldest snapshots left in the buffer
\* satisfy snap0.tick <= render_tick <= snap1.tick, every uncontrolled entity
\* is at pos0 + (pos1 - pos0) * (render_tick - snap0.tick) / (snap1.tick -
\* snap0.tick); if they do not, or fewer than two are left, every entity is
\* where it was before the call.  The controlled entity is never moved.
InterpolationBracketing ==
    trace.name = "interpolate_entities" =>
      LET c == clients[1]
          buf == c.state_snapshots
          render_tick == trace.tick - SmoothingRate
          bracket == /\ Len(buf) >= 2
                     /\ buf[1].tick <= render_tick
                     /\ render_tick <= buf[2].tick
      IN  \A id \in DOMAIN c.entities :
            IF bracket /\ c.controlled_entity # Some(id)
            THEN /\ buf[2].tick > buf[1].tick
                 /\ IsLerp(c.entities[id].position.x,
                           buf[1].state.position.x, buf[2].state.position.x,
                           render_tick - buf[1].tick, buf[2].tick - buf[1].tick)
                 /\ IsLerp(c.entities[id].position.y,
                           buf[1].state.position.y, buf[2].state.position.y,
                           render_tick - buf[1].tick, buf[2].tick - buf[1].tick)
            ELSE c.entities[id].position = trace.before.entities[id].position

\* C6 witness: the buffer [(10, (0,0)), (20, (10,0))] at tick 25, render_tick
\* 15: the uncontrolled entities have been moved from (50,50) to (5,0).
InterpolationBracketingWitness ==
    /\ trace.name = "interpolate_entities"
    /\ trace.tick = 25
    /\ Len(clients[1].state_snapshots) = 2
    /\ clients[1].state_snapshots[1].tick = 10
    /\ clients[1].state_snapshots[1].state.position = Pos(0, 0)
    /\ clients[1].state_snapshots[2].tick = 20
    /\ clients[1].state_snapshots[2].state.position = Pos(10, 0)
    /\ trace.before.entities[2].position = HeldPosition
    /\ clients[1].entities[2].position = Pos(5, 0)

----------------------------------------------------------------------------
(* Harness of one Client: client 1 and a server it connects to; in place of *)
(* the server's loop, the environment sends messages of its own choosing to *)
(* the client's network (Client::network is public).                        *)

ClientTickMs == 1     \* tick_rate_ms of the clients
ServerTickMs == 2     \* tick_rate_ms of the server
MaxClientNow == 2     \* clock horizon of this harness
MaxEnvSends == 4      \* messages the environment sends

EnvSequences == {3, 5, 6, 7}

\* the message the environment sends with a given sequence: the state of
\* entity 1 (the one the client controls once connected), of entity 2 and of
\* entity 3
EnvMessage(sequence) ==
    Message(sequence,
            Some(<<State(0, 1, Pos(sequence, 0), "Red"),
                   State(0, 2, Pos(0, sequence), "Green"),
                   State(0, 3, Pos(100, 100), "Blue")>>),
            None)

\* is_key_down for the four keys: right held
RightHeld == {Input(FALSE, TRUE, FALSE, FALSE)}

\* nothing held, or right held
IdleOrRight == {Input(FALSE, FALSE, FALSE, FALSE), Input(FALSE, TRUE, FALSE, FALSE)}

ClientHarnessInit ==
    /\ now = 0
    /\ timerH = Idle /\ netH = Idle /\ simH = Idle
    /\ env = [state_tick |-> "default", order |-> "ascending", sent |-> 0]
    /\ srv = ServerNew(ServerTickMs, 0)
    /\ srvNet = UnreliableNew(0)
    /\ clients = [id \in {1} |-> ClientNew(1, ClientTickMs, 0)]
    /\ cnet = [id \in {1} |-> UnreliableNew(0)]
    /\ trace = [name |-> "new"]

ClientHarnessAdvance ==
    /\ Advance(MaxClientNow)
    /\ UNCHANGED <<timerH, netH, simH, sysVars>>

\* client.connect(&mut server, 0, 0, 0.), once
ClientHarnessConnect ==
    /\ ~clients[1].connected
    /\ LET r == ClientConnect(clients[1], srv, cnet[1], srvNet, 0, 0, 0)
       IN  /\ clients' = [clients EXCEPT ![1] = r.c]
           /\ srv' = r.server
           /\ cnet' = [cnet EXCEPT ![1] = r.net]
           /\ srvNet' = r.snet
    /\ trace' = [name |-> "connect", id |-> 1]
    /\ UNCHANGED <<now, timerH, netH, simH, env>>

\* client.network.borrow_mut().send(0, message), before the clock's horizon
ClientHarnessEnvSend ==
    /\ env.sent < MaxEnvSends
    /\ now < MaxClientNow
    /\ \E sequence \in EnvSequences :
         cnet' = [cnet EXCEPT ![1] =
                    UnreliableSend(@, now, 0, EnvMessage(sequence), 0,
                                   cnet[1].min_latency_ms)]
    /\ env' = [env EXCEPT !.sent = @ + 1]
    /\ trace' = [name |-> "send"]
    /\ UNCHANGED <<now, timerH, netH, simH, srv, srvNet, clients>>

\* client.update()
ClientHarnessUpdate ==
    /\ \E keys \in RightHeld :
         LET r == ClientUpdate(clients[1], cnet[1], srvNet, now, keys, 0,
                               srvNet.min_latency_ms)
         IN  /\ clients' = [clients EXCEPT ![1] = r.c]
             /\ cnet' = [cnet EXCEPT ![1] = r.net]
             /\ srvNet' = r.snet
             /\ trace' = [name |-> "update", id |-> 1, log |-> r.log,
                          mark |-> clients[1].last_message_sequence]
    /\ UNCHANGED <<now, timerH, netH, simH, env, srv>>

ClientHarnessNext ==
    \/ ClientHarnessAdvance
    \/ ClientHarnessConnect
    \/ ClientHarnessEnvSend
    \/ ClientHarnessUpdate

SpecClient == ClientHarnessInit /\ [][ClientHarnessNext]_vars

\* how many states of a message are for entities other than `controlled`
RemoteStates(message, controlled) ==
    IF message.state = None THEN 0
    ELSE Cardinality({i \in DOMAIN message.state[1] :
                        controlled # Some(message.state[1][i].entity_id)})

\* C4: Staleness filter.  In one drain of the server messages, a message whose
\* sequence is below the high-water mark (initially 0) leaves the mark, the
\* entities, the input history and the snapshots as they were; any other
\* message is processed (its entities are in the mirror afterwards, each of
\* its remote states is pushed as a snapshot when interpolation is on) and
\* its sequence becomes the mark.  The mark never decreases.
StalenessFilter ==
    trace.name = "update" =>
      LET log == trace.log
          c == clients[trace.id]
      IN  /\ c.last_message_sequence >= trace.mark
          /\ log # <<>> =>
               /\ log[1].mark_before = trace.mark
               /\ log[Len(log)].mark_after = c.last_message_sequence
          /\ \A i \in DOMAIN log :
               /\ i > 1 => log[i].mark_before = log[i - 1].mark_after
               /\ IF log[i].message.sequence < log[i].mark_before
                  THEN /\ ~log[i].touched
                       /\ log[i].mark_after = log[i].mark_before
                  ELSE /\ log[i].mark_after = log[i].message.sequence
                       /\ log[i].known
                       /\ c.extrapolation_enabled =>
                            log[i].pushed
                              = RemoteStates(log[i].message, c.controlled_entity)

\* C4 witness: one drain received the sequences 5, 3, 7, 6 in that order,
\* processed 5 and 7, discarded 3 and 6, and left the mark at 7.
StalenessFilterWitness ==
    /\ trace.name = "update"
    /\ Len(trace.log) = 4
    /\ [i \in 1 .. 4 |-> trace.log[i].message.sequence] = <<5, 3, 7, 6>>
    /\ [i \in 1 .. 4 |-> trace.log[i].touched] = <<TRUE, FALSE, TRUE, FALSE>>
    /\ [i \in 1 .. 4 |-> trace.log[i].mark_after] = <<5, 5, 7, 7>>
    /\ clients[1].last_message_sequence = 7

\* C10: Connectedness gate.  A step that ends an update call on a client
\* whose connected flag is false changes nothing: the client (entities, input
\* history, snapshots, pending input, high-water mark, tick timer), its own
\* network and the server's network are as before the call.  (Besides update,
\* only the passing of time leaves trace.name at "update", and it changes
\* none of these either.)
ConnectednessGate ==
    [][(trace'.name = "update" /\ ~clients[1].connected) =>
         /\ clients' = clients
         /\ cnet' = cnet
         /\ srvNet' = srvNet
         /\ trace'.log = <<>>]_vars

\* C10 witness: an update of the unconnected client has ended at a time when
\* a tick was due and a message was deliverable on its network, which is
\* still there.
ConnectednessGateWitness ==
    /\ trace.name = "update"
    /\ ~clients[1].connected
    /\ now >= ClientTickMs
    /\ cnet[1].messages # <<>>
    /\ cnet[1].messages[1].delay <= now
    /\ clients[1].tick_timer.current_tick = 0

----------------------------------------------------------------------------
(* The random values of a send.  The draw is compared with drop_rate only,   *)
(* so on a channel whose drop_rate is 0 its value makes no difference.       *)

SendDraws(net) == IF net.drop_rate = 0 THEN {0} ELSE DropDraws

\* the draws and latencies of one broadcast: one pair per client network
BroadcastRandoms(nets) ==
    {f \in [DOMAIN nets -> [draw : DropDraws, latency : 0 .. MaxLatency]] :
        \A id \in DOMAIN nets : /\ f[id].draw \in SendDraws(nets[id])
                                /\ f[id].latency \in LatencyRange(nets[id])}

\* the number of ticks an update of the server at time nowv runs
TicksDue(server, nowv) == Len(TickTimerTick(server.tick_timer, nowv).ticks)

----------------------------------------------------------------------------
(* One client and the server, as main.rs runs them: the client connects with *)
(* zero latency and zero drop, then client.update() and server.update() are  *)
(* called at arbitrary moments.  Prediction and reconciliation are enabled   *)
(* (the state Client::new leaves them in).                                   *)

MaxSyncNow == 4       \* clock horizon of this harness

SyncInit ==
    /\ now = 0
    /\ timerH = Idle /\ netH = Idle /\ simH = Idle
    /\ \E state_tick \in {"default", "server_tick"} :
         env = [state_tick |-> state_tick, order |-> "ascending"]
    /\ srv = ServerNew(ServerTickMs, 0)
    /\ srvNet = UnreliableNew(0)
    /\ clients = [id \in {1} |-> ClientNew(1, ClientTickMs, 0)]
    /\ cnet = [id \in {1} |-> UnreliableNew(0)]
    /\ trace = [name |-> "new"]

SyncAdvance ==
    /\ Advance(MaxSyncNow)
    /\ UNCHANGED <<timerH, netH, simH, sysVars>>

\* client.connect(&mut server, 0, 0, 0.), once
SyncConnect ==
    /\ ~clients[1].connected
    /\ LET r == ClientConnect(clients[1], srv, cnet[1], srvNet, 0, 0, 0)
       IN  /\ clients' = [clients EXCEPT ![1] = r.c]
           /\ srv' = r.server
           /\ cnet' = [cnet EXCEPT ![1] = r.net]
           /\ srvNet' = r.snet
    /\ trace' = [name |-> "connect", id |-> 1]
    /\ UNCHANGED <<now, timerH, netH, simH, env>>

\* client.update()
SyncClientUpdate ==
    /\ \E keys \in IdleOrRight :
         LET r == ClientUpdate(clients[1], cnet[1], srvNet, now, keys, 0,
                               srvNet.min_latency_ms)
         IN  /\ clients' = [clients EXCEPT ![1] = r.c]
             /\ cnet' = [cnet EXCEPT ![1] = r.net]
             /\ srvNet' = r.snet
             /\ trace' = [name |-> "client_update", id |-> 1, log |-> r.log]
    /\ UNCHANGED <<now, timerH, netH, simH, env, srv>>

\* server.update()
SyncServerUpdate ==
    /\ \E rnds \in [1 .. TicksDue(srv, now) -> BroadcastRandoms(cnet)] :
         LET r == ServerUpdate(srv, srvNet, cnet, now, env, rnds)
         IN  /\ srv' = r.server
             /\ srvNet' = r.snet
             /\ cnet' = r.nets
             /\ trace' = [name |-> "server_update", calls |-> r.calls]
    /\ UNCHANGED <<now, timerH, netH, simH, env, clients>>

SyncNext ==
    \/ SyncAdvance
    \/ SyncConnect
    \/ SyncClientUpdate
    \/ SyncServerUpdate

SpecSync == SyncInit /\ [][SyncNext]_vars

\* the client has just reconciled against the snapshot the server made after
\* processing every input the client has sent: the last message of the drain
\* was accepted and carries the server's last processed sequence, and no
\* message is in flight in either direction
FullySynced(id) ==
    /\ trace.name = "client_update"
    /\ trace.id = id
    /\ clients[id].connected
    /\ clients[id].client_prediction_enabled
    /\ clients[id].server_reconciliation_enabled
    /\ id \in DOMAIN srv.last_processed_input
    /\ srvNet.messages = <<>>
    /\ cnet[id].messages = <<>>
    /\ trace.log # <<>>
    /\ LET last == trace.log[Len(trace.log)]
       IN  /\ last.mark_after = last.message.sequence
           /\ last.message.sequence = srv.last_processed_input[id]

\* C5: Reconciliation convergence.  With prediction and reconciliation
\* enabled, zero latency and zero drop: whenever every input the client has
\* sent has been processed by the server and the resulting snapshot has been
\* reconciled, the client's position for its controlled entity equals the
\* server's position for it.
ReconciliationConvergence ==
    \A id \in DOMAIN clients :
       FullySynced(id) =>
         LET ctrl == clients[id].controlled_entity[1]
         IN  clients[id].entities[ctrl].position
               = srv.world.entities[ctrl].position

----------------------------------------------------------------------------
(* The whole program of main.rs: a server, two clients, the scripted entity; *)
(* connect, client.update() and server.update() are called at arbitrary      *)
(* moments.                                                                  *)

MaxSysNow == 2        \* clock horizon of the whole program
MaxSysEntities == 3   \* entities the server's world grows to

ClientIds == {1, 2}

\* the (min_latency_ms, max_latency_ms, drop_rate) a connect call is given
ConnectParams ==
    {[min_latency_ms |-> 0, max_latency_ms |-> 0, drop_rate |-> 0],
     [min_latency_ms |-> 1, max_latency_ms |-> 1, drop_rate |-> 0]}

\* the parameters client id connects with, each time: as in main.rs, where
\* client1 connects with one latency and client2 with another
ParamsOf(id) ==
    CHOOSE p \in ConnectParams : p.min_latency_ms = id - 1

\* env.params[id] is None until client id connects, then the parameters of
\* its most recent connect call
Init ==
    /\ now = 0
    /\ timerH = Idle /\ netH = Idle /\ simH = Idle
    /\ \E state_tick \in {"default", "server_tick"} :
         env = [state_tick |-> state_tick, order |-> "ascending",
                params |-> [id \in ClientIds |-> None]]
    /\ srv = ServerNew(ServerTickMs, 0)
    /\ srvNet = UnreliableNew(0)
    /\ clients = [id \in ClientIds |-> ClientNew(id, ClientTickMs, 0)]
    /\ cnet = [id \in ClientIds |-> UnreliableNew(0)]
    /\ trace = [name |-> "new"]

SysAdvance ==
    /\ Advance(MaxSysNow)
    /\ UNCHANGED <<timerH, netH, simH, sysVars>>

\* server.create_npc_entities(), once
SysCreateNpc ==
    /\ srv.npc_entities = <<>>
    /\ srv.world.latest_entity_id < MaxSysEntities
    /\ srv' = CreateNpcEntities(srv)
    /\ trace' = [name |-> "create_npc_entities"]
    /\ UNCHANGED <<now, timerH, netH, simH, env, srvNet, clients, cnet>>

\* client.connect(&mut server, min, max, drop)
SysConnect ==
    /\ srv.world.latest_entity_id < MaxSysEntities
    /\ \E id \in ClientIds :
         LET p == ParamsOf(id)
             r == ClientConnect(clients[id], srv, cnet[id], srvNet,
                                p.min_latency_ms, p.max_latency_ms, p.drop_rate)
         IN  /\ clients' = [clients EXCEPT ![id] = r.c]
             /\ srv' = r.server
             /\ cnet' = [cnet EXCEPT ![id] = r.net]
             /\ srvNet' = r.snet
             /\ env' = [env EXCEPT !.params[id] = Some(p)]
             /\ trace' = [name |-> "connect", id |-> id]
    /\ UNCHANGED <<now, timerH, netH, simH>>

\* client.update()
SysClientUpdate ==
    /\ \E id \in ClientIds, keys \in RightHeld,
          draw \in SendDraws(srvNet), latency \in LatencyRange(srvNet) :
         LET r == ClientUpdate(clients[id], cnet[id], srvNet, now, keys, draw,
                               latency)
         IN  /\ clients' = [clients EXCEPT ![id] = r.c]
             /\ cnet' = [cnet EXCEPT ![id] = r.net]
             /\ srvNet' = r.snet
             /\ trace' = [name |-> "client_update", id |-> id]
    /\ UNCHANGED <<now, timerH, netH, simH, env, srv>>

\* server.update()
SysServerUpdate ==
    /\ \E rnds \in [1 .. TicksDue(srv, now) -> BroadcastRandoms(cnet)] :
         LET r == ServerUpdate(srv, srvNet, cnet, now, env, rnds)
         IN  /\ srv' = r.server
             /\ srvNet' = r.snet
             /\ cnet' = r.nets
             /\ trace' = [name |-> "server_update", calls |-> r.calls,
                          sent |-> [id \in ClientIds |->
                                      Len(r.nets[id].messages)
                                        - Len(cnet[id].messages)]]
    /\ UNCHANGED <<now, timerH, netH, simH, env, clients>>

Next ==
    \/ SysAdvance
    \/ SysCreateNpc
    \/ SysConnect
    \/ SysClientUpdate
    \/ SysServerUpdate

Spec == Init /\ [][Next]_vars

\* the three public fields Client::connect assigns
ChannelConfig(net) ==
    [min_latency_ms |-> net.min_latency_ms,
     max_latency_ms |-> net.max_latency_ms,
     drop_rate |-> net.drop_rate]

\* C8: Per-pair channel configuration.  For every connected client, the
\* channel it receives on and the channel it sends on both carry the min
\* latency, max latency and drop rate of that client's most recent connect
\* call, whatever other clients have connected with since.
PerPairChannelConfiguration ==
    \A id \in ClientIds :
       clients[id].connected =>
         /\ ChannelConfig(cnet[id]) = env.params[id][1]
         /\ ChannelConfig(srvNet) = env.params[id][1]

\* the entity ids of a state list, in order
EntityIds(world_state) == [i \in DOMAIN world_state |-> world_state[i].entity_id]

----------------------------------------------------------------------------
(* Connections *)

\* the entities Server::create_npc_entities made
NpcIds == {srv.npc_entities[i] : i \in DOMAIN srv.npc_entities}

\* C11: Connect and reconnect.  After any sequence of connect calls, a client
\* is connected exactly if the server holds its network; every connected
\* client controls the entity the server maps its id to; that entity is in the
\* server's world, is not a scripted entity, and is mapped to no other client.
ConnectAndReconnect ==
    \A id \in ClientIds :
       /\ clients[id].connected <=> id \in srv.connected_clients
       /\ clients[id].connected =>
            /\ id \in DOMAIN srv.networked_players
            /\ clients[id].controlled_entity = Some(srv.networked_players[id])
            /\ srv.networked_players[id] \in DOMAIN srv.world.entities
            /\ srv.networked_players[id] \notin NpcIds
            /\ \A other \in ClientIds \ {id} :
                 clients[other].connected =>
                   srv.networked_players[other] # srv.networked_players[id]

\* C11 witness: client 1 has connected, then the scripted entity was made,
\* then client 1 has connected again: it controls entity 3, entity 1 is the
\* one it left behind.
ConnectAndReconnectWitness ==
    /\ trace.name = "connect"
    /\ trace.id = 1
    /\ srv.npc_entities = <<2>>
    /\ clients[1].controlled_entity = Some(3)
    /\ srv.networked_players[1] = 3
    /\ DOMAIN srv.world.entities = {1, 2, 3}

----------------------------------------------------------------------------
(* Reconciliation, seen after a client.update() of SpecSync *)

\* the verdicts of a drain on the messages that were not discarded as stale
AcceptedVerdicts(log) ==
    SelectSeq(log, LAMBDA v : v.message.sequence >= v.mark_before)

\* the state a message carries for entity id, as a sequence of length 0 or 1
StateOf(message, id) ==
    IF message.state = None THEN <<>>
    ELSE SelectSeq(message.state[1], LAMBDA st : st.entity_id = id)

\* the last client.update() of client id accepted a message that carries the
\* state of the entity the client controls, with reconciliation enabled
Reconciled(id) ==
    /\ trace.name = "client_update"
    /\ trace.id = id
    /\ clients[id].server_reconciliation_enabled
    /\ clients[id].controlled_entity # None
    /\ AcceptedVerdicts(trace.log) # <<>>
    /\ LET acc == AcceptedVerdicts(trace.log)
       IN  StateOf(acc[Len(acc)].message, clients[id].controlled_entity[1]) # <<>>

\* the last message the update accepted
LastAccepted == LET acc == AcceptedVerdicts(trace.log) IN acc[Len(acc)].message

\* C12: Reconciliation cutoff.  After the client has reconciled against a
\* message whose sequence a is the last input tick the server reports having
\* processed for it, every entry of the input history has a tick >= a + 1: no
\* input the server has acknowledged is kept.
ReconciliationCutoff ==
    \A id \in DOMAIN clients :
       Reconciled(id) =>
         \A k \in DOMAIN clients[id].input_history :
            clients[id].input_history[k].tick >= LastAccepted.sequence + 1

----------------------------------------------------------------------------
(* Harness of the Server: the state main.rs enters its loop with (both      *)
(* clients connected, then the scripted entity created); in place of the     *)
(* clients' loops, the environment sends input messages of its own choosing  *)
(* on the server's network, as Client::process_input does, and                *)
(* server.update() is called at arbitrary moments.  env.dequeued[id] lists    *)
(* the input messages of client id that receive has handed to the server.    *)

MaxServerNow == 3     \* clock horizon of this harness
MaxClientSends == 3   \* input messages the environment sends

\* right held, or up held
RightOrUp == {Input(FALSE, TRUE, FALSE, FALSE), Input(FALSE, FALSE, TRUE, FALSE)}

\* what a receive loop at time nowv takes from the network, in order
RECURSIVE Drained(_, _)
Drained(net, nowv) ==
    LET r == Receive(net, nowv)
    IN  IF r.result = None THEN <<>>
        ELSE <<r.result[1]>> \o Drained(r.net, nowv)

\* the (sequence, input) pairs of sender id among dequeued messages
InputsOf(dequeued, id) ==
    LET mine == SelectSeq(dequeued, LAMBDA d : d.sender_id = id)
    IN  [i \in DOMAIN mine |->
           [tick |-> mine[i].message.sequence,
            input |-> Input(mine[i].message.input[1][1], mine[i].message.input[1][2],
                            mine[i].message.input[1][3], mine[i].message.input[1][4])]]

ServerHarnessInit ==
    /\ now = 0
    /\ timerH = Idle /\ netH = Idle /\ simH = Idle
    /\ \E p \in ConnectParams :
         LET c0 == [id \in ClientIds |-> ClientNew(id, ClientTickMs, 0)]
             n0 == [id \in ClientIds |-> UnreliableNew(0)]
             r1 == ClientConnect(c0[1], ServerNew(ServerTickMs, 0), n0[1],
                                 UnreliableNew(0), p.min_latency_ms,
                                 p.max_latency_ms, p.drop_rate)
             r2 == ClientConnect(c0[2], r1.server, n0[2], r1.snet,
                                 p.min_latency_ms, p.max_latency_ms,
                                 p.drop_rate)
         IN  /\ clients = [id \in ClientIds |-> IF id = 1 THEN r1.c ELSE r2.c]
             /\ cnet = [id \in ClientIds |-> IF id = 1 THEN r1.net ELSE r2.net]
             /\ srvNet = r2.snet
             /\ srv = CreateNpcEntities(r2.server)
    /\ env = [state_tick |-> "default", order |-> "ascending", sent |-> 0,
              dequeued |-> [id \in ClientIds |-> <<>>]]
    /\ trace = [name |-> "new"]

ServerHarnessAdvance ==
    /\ Advance(MaxServerNow)
    /\ UNCHANGED <<timerH, netH, simH, sysVars>>

\* server_network.send(id, Message { state: None, sequence, input }) of
\* Client::process_input, before the clock's horizon; the sequences of later
\* sends are higher
ServerHarnessClientSend ==
    /\ env.sent < MaxClientSends
    /\ now < MaxServerNow
    /\ \E id \in ClientIds, input \in RightOrUp, latency \in LatencyRange(srvNet) :
         srvNet' = UnreliableSend(srvNet, now, id,
                                  Message(env.sent + 1, None,
                                          Some(<<input.left, input.right,
                                                 input.up, input.down>>)),
                                  0, latency)
    /\ env' = [env EXCEPT !.sent = @ + 1]
    /\ trace' = [name |-> "send"]
    /\ UNCHANGED <<now, timerH, netH, simH, srv, clients, cnet>>

\* server.update()
ServerHarnessUpdate ==
    /\ \E rnds \in [1 .. TicksDue(srv, now) -> BroadcastRandoms(cnet)] :
         LET r == ServerUpdate(srv, srvNet, cnet, now, env, rnds)
             taken == IF TicksDue(srv, now) = 0 THEN <<>>
                      ELSE Drained(srvNet, now)
         IN  /\ srv' = r.server
             /\ srvNet' = r.snet
             /\ cnet' = r.nets
             /\ env' = [env EXCEPT !.dequeued =
                          [id \in ClientIds |-> @[id] \o InputsOf(taken, id)]]
             /\ trace' = [name |-> "server_update", calls |-> r.calls]
    /\ UNCHANGED <<now, timerH, netH, simH, clients>>

ServerHarnessNext ==
    \/ ServerHarnessAdvance
    \/ ServerHarnessClientSend
    \/ ServerHarnessUpdate

SpecServer == ServerHarnessInit /\ [][ServerHarnessNext]_vars

----------------------------------------------------------------------------
(* A session of one client with the server, as main.rs runs it: the client  *)
(* connects and reconnects with zero latency and zero drop (key 1), the      *)
(* reconciliation setting is switched from the UI, and client.update() and   *)
(* server.update() are called at arbitrary moments, so that a frame emits    *)
(* zero, one or several ticks.                                               *)

MaxSessNow == 4       \* clock horizon of the session
MaxSessEntities == 2  \* entities the server's world grows to

SessInit ==
    /\ now = 0
    /\ timerH = Idle /\ netH = Idle /\ simH = Idle
    /\ \E state_tick \in {"default", "server_tick"} :
         env = [state_tick |-> state_tick, order |-> "ascending"]
    /\ srv = ServerNew(ServerTickMs, 0)
    /\ srvNet = UnreliableNew(0)
    /\ clients = [id \in {1} |-> ClientNew(1, ClientTickMs, 0)]
    /\ cnet = [id \in {1} |-> UnreliableNew(0)]
    /\ trace = [name |-> "new"]

SessAdvance ==
    /\ Advance(MaxSessNow)
    /\ UNCHANGED <<timerH, netH, simH, sysVars>>

\* client1.connect(&mut server, 0, 0, 0.), at the start or on key 1
SessConnect ==
    /\ srv.world.latest_entity_id < MaxSessEntities
    /\ LET r == ClientConnect(clients[1], srv, cnet[1], srvNet, 0, 0, 0)
       IN  /\ clients' = [clients EXCEPT ![1] = r.c]
           /\ srv' = r.server
           /\ cnet' = [cnet EXCEPT ![1] = r.net]
           /\ srvNet' = r.snet
    /\ trace' = [name |-> "connect", id |-> 1]
    /\ UNCHANGED <<now, timerH, netH, simH, env>>

\* client1.server_reconciliation_enabled = ui_state.client_1_reconciliation,
\* after the checkbox was switched
SessSetReconciliation ==
    /\ clients' = [clients EXCEPT ![1].server_reconciliation_enabled = ~@]
    /\ trace' = [name |-> "set_reconciliation", id |-> 1]
    /\ UNCHANGED <<now, timerH, netH, simH, env, srv, srvNet, cnet>>

\* the sequences of the messages of a log of verdicts, in order
RECURSIVE SequencesIn(_)
SequencesIn(log) ==
    IF log = <<>> THEN <<>>
    ELSE <<Head(log).message.sequence>> \o SequencesIn(Tail(log))

\* client1.update().  trace.ticks are the ticks the frame emits,
\* trace.sent the number of messages the call queues for the server,
\* trace.acks the sequences of the messages it receives, in order, and
\* trace.mark the client's high-water mark before the call.
SessClientUpdate ==
    /\ \E keys \in IdleOrRight :
         LET r == ClientUpdate(clients[1], cnet[1], srvNet, now, keys, 0,
                               srvNet.min_latency_ms)
         IN  /\ clients' = [clients EXCEPT ![1] = r.c]
             /\ cnet' = [cnet EXCEPT ![1] = r.net]
             /\ srvNet' = r.snet
             /\ trace' = [name |-> "client_update", id |-> 1,
                          ticks |-> IF clients[1].connected
                                    THEN TickTimerTick(clients[1].tick_timer,
                                                       now).ticks
                                    ELSE <<>>,
                          sent |-> Len(r.snet.messages) - Len(srvNet.messages),
                          acks |-> SequencesIn(r.log),
                          mark |-> clients[1].last_message_sequence]
    /\ UNCHANGED <<now, timerH, netH, simH, env, srv>>

\* server.update()
SessServerUpdate ==
    /\ \E rnds \in [1 .. TicksDue(srv, now) -> BroadcastRandoms(cnet)] :
         LET r == ServerUpdate(srv, srvNet, cnet, now, env, rnds)
         IN  /\ srv' = r.server
             /\ srvNet' = r.snet
             /\ cnet' = r.nets
             /\ trace' = [name |-> "server_update"]
    /\ UNCHANGED <<now, timerH, netH, simH, env, clients>>

SessNext ==
    \/ SessAdvance
    \/ SessConnect
    \/ SessSetReconciliation
    \/ SessClientUpdate
    \/ SessServerUpdate

SpecSession == SessInit /\ [][SessNext]_vars

\* C14: Input sequence numbering.  A client.update() that sends an input
\* sends it in the first tick t the frame emits (the pending input exists
\* then and is cleared): the message's sequence is t and the entry appended to
\* the input history carries t.
InputSequenceNumbering ==
    (trace.name = "client_update" /\ trace.sent > 0) =>
      LET c == clients[trace.id]
          message == srvNet.messages[Len(srvNet.messages)].message
      IN  /\ trace.sent = 1
          /\ trace.ticks # <<>>
          /\ message.sequence = trace.ticks[1]
          /\ c.input_history # <<>>
          /\ c.input_history[Len(c.input_history)].tick = trace.ticks[1]

----------------------------------------------------------------------------
(* Input history, seen after a client.update() of SpecSync *)

\* C15: Input history pruning.  Once the server has processed every input the
\* client has sent and the client has reconciled against the snapshot that
\* acknowledges the last of them, with nothing in flight in either direction,
\* every entry has been removed from the input history: it is empty.
InputHistoryDrains ==
    \A id \in DOMAIN clients :
       FullySynced(id) => clients[id].input_history = <<>>

\* the inputs of an input history, oldest first
InputsIn(history) == [k \in DOMAIN history |-> history[k].input]

\* C16: Reconciliation replay.  After a client.update() that reconciled, the
\* controlled entity is at the authoritative position of the last accepted
\* state moved by exactly the inputs the input history holds, each counted
\* once, whatever position the client had predicted before.  (An input the
\* same update handles after the drain is both appended and predicted, so
\* the equation covers it.)
ReconciliationReplay ==
    \A id \in DOMAIN clients :
       (Reconciled(id) /\ clients[id].client_prediction_enabled) =>
         LET c == clients[id]
             ctrl == c.controlled_entity[1]
             auth == StateOf(LastAccepted, ctrl)[1].position
         IN  c.entities[ctrl].position
               = Displaced(auth, InputsIn(c.input_history), Len(c.input_history))

\* C16 witness: the client has reconciled against an authoritative position
\* other than the origin with two inputs left in its history, and stands two
\* steps to the right of it.
ReconciliationReplayWitness ==
    /\ Reconciled(1)
    /\ Len(clients[1].input_history) = 2
    /\ LET ctrl == clients[1].controlled_entity[1]
           auth == StateOf(LastAccepted, ctrl)[1].position
       IN  /\ auth # Pos(0, 0)
           /\ clients[1].entities[ctrl].position
                = [x |-> RatAddInt(auth.x, 2 * Speed), y |-> auth.y]

----------------------------------------------------------------------------
(* The snapshot buffer, seen after interpolate_entities of SpecInterp *)

\* C17: Remote smoothing uses the entity's own snapshots.  Whenever
\* interpolate_entities has changed the position of an entity, the two
\* snapshots it interpolated between (the two oldest left in the buffer) both
\* carry that entity's id.
OwnSnapshotsOnly ==
    trace.name = "interpolate_entities" =>
      \A id \in DOMAIN clients[1].entities :
         clients[1].entities[id].position # trace.before.entities[id].position =>
           /\ Len(clients[1].state_snapshots) >= 2
           /\ clients[1].state_snapshots[1].state.entity_id = id
           /\ clients[1].state_snapshots[2].state.entity_id = id

----------------------------------------------------------------------------
(* The snapshot buffer in the client's loop *)

\* C18 as stated: in every client state the ticks of the snapshot buffer are
\* strictly increasing from front to back.
SnapshotTicksStrictlyIncreasing ==
    \A id \in DOMAIN clients :
       \A k \in DOMAIN clients[id].state_snapshots :
          k > 1 => clients[id].state_snapshots[k - 1].tick
                     < clients[id].state_snapshots[k].tick

\* C18: Snapshot buffer ordering.  In every client state the ticks of the
\* snapshot buffer never decrease from front to back, and no entry is newer
\* than the last tick the client's timer has emitted; entries pushed while
\* the same client tick is processed (the remote entities of one message, or
\* several messages of one drain) carry the same tick.
SnapshotTicksNonDecreasing ==
    \A id \in DOMAIN clients :
       \A k \in DOMAIN clients[id].state_snapshots :
          /\ clients[id].state_snapshots[k].tick
               < clients[id].tick_timer.current_tick
          /\ k > 1 => clients[id].state_snapshots[k - 1].tick
                        <= clients[id].state_snapshots[k].tick

\* C18 witness: one drain has accepted two messages, each with the states of
\* two remote entities: four entries with the same tick, then a later drain
\* has added entries with a later tick.
SnapshotTicksNonDecreasingWitness ==
    LET buf == clients[1].state_snapshots
    IN  /\ Len(buf) >= 6
        /\ buf[1].tick = buf[4].tick
        /\ buf[1].state.entity_id # buf[2].state.entity_id
        /\ buf[4].tick < buf[5].tick


----------------------------------------------------------------------------
(* A client late in a long session: it has been connected, with no key held *)
(* and no server message received, until its timer is three ticks short of  *)
(* the last positive tick.  From there it is updated at arbitrary moments   *)
(* with keys held or not, reconnects, has its reconciliation setting        *)
(* switched, and receives messages the environment sends to its network.    *)

MaxLateNow == 4       \* clock horizon of the late session
MaxLateSends == 1     \* messages the environment sends
MaxLateEntities == 2  \* entities the server's world grows to

LateSequences == {3, 5}

LateInit ==
    /\ now = 0
    /\ timerH = Idle /\ netH = Idle /\ simH = Idle
    /\ \E overflow_checks \in BOOLEAN :
         env = [state_tick |-> "default", order |-> "ascending", sent |-> 0,
                overflow_checks |-> overflow_checks, panicked |-> FALSE]
    /\ LET r == ClientConnect(ClientNew(1, ClientTickMs, 0),
                              ServerNew(ServerTickMs, 0),
                              UnreliableNew(0), UnreliableNew(0), 0, 0, 0)
       IN  /\ clients = [id \in {1} |->
                [r.c EXCEPT !.tick_timer.current_tick = I32Max - 2]]
           /\ srv = r.server
           /\ cnet = [id \in {1} |-> r.net]
           /\ srvNet = r.snet
    /\ trace = [name |-> "new"]

LateAdvance ==
    /\ ~env.panicked
    /\ Advance(MaxLateNow)
    /\ UNCHANGED <<timerH, netH, simH, sysVars>>

\* client1.connect(&mut server, 0, 0, 0.) again, on key 1
LateReconnect ==
    /\ ~env.panicked
    /\ srv.world.latest_entity_id < MaxLateEntities
    /\ LET r == ClientConnect(clients[1], srv, cnet[1], srvNet, 0, 0, 0)
       IN  /\ clients' = [clients EXCEPT ![1] = r.c]
           /\ srv' = r.server
           /\ cnet' = [cnet EXCEPT ![1] = r.net]
           /\ srvNet' = r.snet
    /\ trace' = [name |-> "connect", id |-> 1]
    /\ UNCHANGED <<now, timerH, netH, simH, env>>

\* client1.server_reconciliation_enabled = ui_state.client_1_reconciliation,
\* after the checkbox was switched
LateSetReconciliation ==
    /\ ~env.panicked
    /\ clients' = [clients EXCEPT ![1].server_reconciliation_enabled = ~@]
    /\ trace' = [name |-> "set_reconciliation", id |-> 1]
    /\ UNCHANGED <<now, timerH, netH, simH, env, srv, srvNet, cnet>>

\* client.network.borrow_mut().send(0, message), before the clock's horizon
LateEnvSend ==
    /\ ~env.panicked
    /\ env.sent < MaxLateSends
    /\ now < MaxLateNow
    /\ \E sequence \in LateSequences :
         cnet' = [cnet EXCEPT ![1] =
                    UnreliableSend(@, now, 0, EnvMessage(sequence), 0,
                                   cnet[1].min_latency_ms)]
    /\ env' = [env EXCEPT !.sent = @ + 1]
    /\ trace' = [name |-> "send"]
    /\ UNCHANGED <<now, timerH, netH, simH, srv, srvNet, clients>>

\* `tick - smoothing_rate` in interpolate_entities overflows during this
\* call: the frame emits a tick less than ten above i32::MIN and the entity
\* loop has an entity to run for (r is the outcome of the call without
\* overflow checks; every message due is drained in the frame's first tick,
\* so the mirror is not empty in the loop exactly if it is not empty in r)
RenderTickOverflows(c, r, ticks) ==
    /\ c.extrapolation_enabled
    /\ DOMAIN r.c.entities # {}
    /\ \E i \in DOMAIN ticks : ticks[i] < I32Min + SmoothingRate

\* client1.update().  trace.ticks are the ticks the frame emits.  In a build
\* with overflow checks the call panics where `tick - smoothing_rate`
\* overflows, and the process is gone; in a build without, the difference
\* wraps.
LateClientUpdate ==
    /\ ~env.panicked
    /\ \E keys \in IdleOrRight :
         LET r == ClientUpdate(clients[1], cnet[1], srvNet, now, keys, 0,
                               srvNet.min_latency_ms)
             ticks == TickTimerTick(clients[1].tick_timer, now).ticks
         IN  IF env.overflow_checks /\ RenderTickOverflows(clients[1], r, ticks)
             THEN /\ env' = [env EXCEPT !.panicked = TRUE]
                  /\ trace' = [name |-> "panic", id |-> 1, ticks |-> ticks]
                  /\ UNCHANGED <<clients, cnet, srvNet>>
             ELSE /\ clients' = [clients EXCEPT ![1] = r.c]
                  /\ cnet' = [cnet EXCEPT ![1] = r.net]
                  /\ srvNet' = r.snet
                  /\ trace' = [name |-> "client_update", id |-> 1,
                               ticks |-> ticks]
                  /\ env' = env
    /\ UNCHANGED <<now, timerH, netH, simH, srv>>

LateNext ==
    \/ LateAdvance
    \/ LateReconnect
    \/ LateSetReconciliation
    \/ LateEnvSend
    \/ LateClientUpdate

SpecLate == LateInit /\ [][LateNext]_vars

\* tick b comes after tick a for a timer that wraps at most once between
\* them: b is the larger number, or a is from before the wrap (positive) and b
\* from after it (negative)
TickAfter(a, b) == a < b \/ (a > 0 /\ b < 0)

\* C20 as the claim states it: the ticks of the input history are strictly
\* increasing from oldest to newest.
InputHistoryStrictlyIncreasing ==
    LET h == clients[1].input_history
    IN  \A i \in DOMAIN h : i > 1 => h[i - 1].tick < h[i].tick

\* C20: Input history ordering.  In every reachable client state each entry
\* of the input history carries a tick the timer reached after the tick of
\* the entry before it, and none carries a tick the timer has yet to reach.
\* The ticks are strictly increasing as numbers except across the timer's
\* wrap, where entries of negative ticks follow entries of positive ticks.
InputHistoryOrdering ==
    LET c == clients[1]
        h == c.input_history
    IN  /\ \A i \in DOMAIN h : i > 1 => TickAfter(h[i - 1].tick, h[i].tick)
        /\ \A i \in DOMAIN h :
              \/ h[i].tick = c.tick_timer.current_tick
              \/ TickAfter(h[i].tick, c.tick_timer.current_tick)


\* C20 witness: after a reconnect, a frame of two ticks (the second of them
\* the last positive tick) has appended an entry of tick i32::MIN behind an
\* entry of a positive tick.
InputHistoryOrderingWitness ==
    /\ trace.name = "client_update"
    /\ Len(trace.ticks) >= 2
    /\ trace.ticks[Len(trace.ticks)] = I32Max
    /\ clients[1].controlled_entity = Some(2)
    /\ LET h == clients[1].input_history
       IN  /\ Len(h) >= 2
           /\ h[Len(h) - 1].tick > 0
           /\ h[Len(h)].tick = I32Min


----------------------------------------------------------------------------
(* The server's network, seen after a server.update() of the whole program *)

\* C21: No cross-client blocking.  After a server.update() that ran a tick,
\* no message of client 2 whose delay has passed is left in the server's
\* network behind a message of client 1 whose delay has not.
NoCrossClientBlocking ==
    (trace.name = "server_update" /\ trace.calls # <<>>) =>
      ~ \E i, j \in DOMAIN srvNet.messages :
          /\ i < j
          /\ srvNet.messages[i].sender_id = 1
          /\ srvNet.messages[i].delay > now
          /\ srvNet.messages[j].sender_id = 2
          /\ srvNet.messages[j].delay <= now


----------------------------------------------------------------------------
(* Harness of one channel that does not drop: the reliable variant, or the  *)
(* unreliable one with drop_rate 0.  Messages are sent while their          *)
(* deliver-at time lies within the clock's horizon; the clock keeps         *)
(* advancing up to the horizon and receive keeps being called.              *)
(* netH.sent[n] is the n-th message passed to send, with the time of the    *)
(* call and the latency drawn; netH.received are the entries receive        *)
(* returned, each with the time of the call.                                *)

MaxDeliveryNow == 3       \* clock horizon of this harness
MaxDeliverySends == 2     \* calls of send
MaxDeliveryLatency == 2   \* largest max_latency_ms

DeliveryInit ==
    /\ now = 0
    /\ \E kind \in NetKinds, lo \in 0 .. MaxDeliveryLatency,
          hi \in 0 .. MaxDeliveryLatency :
         /\ lo <= hi
         /\ netH = [kind |-> kind,
                    net |-> IF kind = "reliable"
                            THEN [ReliableNew(0) EXCEPT !.min_latency_ms = lo,
                                                        !.max_latency_ms = hi]
                            ELSE [UnreliableNew(0) EXCEPT !.min_latency_ms = lo,
                                                          !.max_latency_ms = hi],
                    sent |-> <<>>,
                    received |-> <<>>]
    /\ timerH = Idle
    /\ simH = Idle
    /\ SysIdle

DeliveryAdvance ==
    /\ Advance(MaxDeliveryNow)
    /\ UNCHANGED <<timerH, netH, simH, sysVars>>

\* network.send(sender_id, message); the n-th message has sequence n, and
\* the two senders take turns
DeliverySend ==
    /\ Len(netH.sent) < MaxDeliverySends
    /\ \E draw \in DropDraws, latency \in LatencyRange(netH.net) :
         /\ now + latency <= MaxDeliveryNow
         /\ LET sender_id == 1 + (Len(netH.sent) % 2)
                m == Message(Len(netH.sent) + 1, None,
                             Some(<<FALSE, sender_id = 1, sender_id = 2, FALSE>>))
            IN  netH' = [netH EXCEPT
                   !.net = IF netH.kind = "reliable"
                           THEN ReliableSend(@, now, sender_id, m, latency)
                           ELSE UnreliableSend(@, now, sender_id, m, draw,
                                               latency),
                   !.sent = Append(@, [sender_id |-> sender_id, message |-> m,
                                       at |-> now, latency |-> latency])]
    /\ UNCHANGED <<now, timerH, simH, sysVars>>

\* network.receive()
DeliveryReceive ==
    /\ LET r == Receive(netH.net, now)
       IN  netH' = [netH EXCEPT
               !.net = r.net,
               !.received = IF r.result = None THEN @
                            ELSE Append(@, [sender_id |-> r.result[1].sender_id,
                                            message |-> r.result[1].message,
                                            at |-> now])]
    /\ UNCHANGED <<now, timerH, simH, sysVars>>

DeliveryNext == DeliveryAdvance \/ DeliverySend \/ DeliveryReceive

SpecDelivery ==
    /\ DeliveryInit
    /\ [][DeliveryNext]_vars
    /\ WF_vars(DeliveryAdvance)
    /\ WF_vars(DeliveryReceive)

\* the n-th message passed to send has been returned by receive
Delivered(n) ==
    \E k \in DOMAIN netH.received : netH.received[k].message.sequence = n

\* every entry receive returned is a message passed to send, with its sender
\* and content, returned once, at or after its send time plus its latency,
\* which lies within [min_latency_ms, max_latency_ms]
DeliveredOnceUnaltered ==
    /\ \A k \in DOMAIN netH.received :
         LET n == netH.received[k].message.sequence
         IN  /\ n \in DOMAIN netH.sent
             /\ netH.received[k].sender_id = netH.sent[n].sender_id
             /\ netH.received[k].message = netH.sent[n].message
             /\ netH.received[k].at >= netH.sent[n].at + netH.sent[n].latency
    /\ \A k1, k2 \in DOMAIN netH.received :
         netH.received[k1].message.sequence = netH.received[k2].message.sequence
           => k1 = k2
    /\ \A n \in DOMAIN netH.sent :
         /\ netH.sent[n].latency >= netH.net.min_latency_ms
         /\ netH.sent[n].latency <= netH.net.max_latency_ms

\* C22: Eventual delivery without loss.  On a channel that does not drop,
\* every message passed to send is eventually returned by receive, as long as
\* the clock keeps advancing and receive keeps being called; what receive
\* returns is a message that was sent, unaltered, returned once and not
\* before its send time plus its latency.
EventualDelivery ==
    /\ []DeliveredOnceUnaltered
    /\ \A n \in 1 .. MaxDeliverySends :
         (Len(netH.sent) >= n) ~> Delivered(n)

\* C22 witness: on an unreliable channel with drop_rate 0, two messages of
\* different senders have been sent, the first with a latency above zero, and
\* both have been returned, the second at a later time than the first.
EventualDeliveryWitness ==
    /\ netH.kind = "unreliable"
    /\ netH.net.drop_rate = 0
    /\ Len(netH.sent) = 2
    /\ netH.sent[1].latency > 0
    /\ netH.sent[1].sender_id # netH.sent[2].sender_id
    /\ Len(netH.received) = 2
    /\ netH.received[1].at < netH.received[2].at
    /\ netH.net.messages = <<>>


----------------------------------------------------------------------------
(* Harness of the state loop of process_server_messages: a connected client *)
(* that controls entity 1, with or without it in its mirror, with an input  *)
(* history of up to two entries and either reconciliation setting, is given *)
(* states of entity 1 and of entity 2, one at a time.                       *)

MaxHistory == 2       \* longest input history the harness starts from
MaxApplies == 2       \* states the harness applies

HistoryTicks == {1, 2, 3}
StatePositions == {Pos(0, 0), Pos(20, 0)}

Histories ==
    {h \in UNION {[1 .. n -> [tick : HistoryTicks, input : RightOrUp]] :
                    n \in 0 .. MaxHistory} :
        \A i \in DOMAIN h : i > 1 => h[i - 1].tick < h[i].tick}

ApplyInit ==
    /\ now = 0
    /\ timerH = Idle /\ netH = Idle /\ simH = Idle
    /\ srv = Idle /\ srvNet = Idle /\ cnet = Idle
    /\ env = [applied |-> 0]
    /\ \E h \in Histories, reconciliation \in BOOLEAN, mirrored \in BOOLEAN :
         clients = [id \in {1} |->
            [ClientNew(1, ClientTickMs, 0) EXCEPT
               !.connected = TRUE,
               !.server_network = TRUE,
               !.controlled_entity = Some(1),
               !.server_reconciliation_enabled = reconciliation,
               !.entities = IF mirrored
                            THEN [e \in {1} |->
                                    [EntityNew EXCEPT !.position = Pos(5, 0)]]
                            ELSE <<>>,
               !.input_history = h]]
    /\ trace = [name |-> "new"]

\* one pass of `for state in world_state`, at tick 4
ApplyStep ==
    /\ env.applied < MaxApplies
    /\ \E id \in {1, 2}, position \in StatePositions :
         LET state == State(0, id, position, "Red")
         IN  /\ clients' = [clients EXCEPT ![1] = ApplyState(@, state, 4)]
             /\ trace' = [name |-> "apply_state", state |-> state,
                          before |-> clients[1]]
    /\ env' = [env EXCEPT !.applied = @ + 1]
    /\ UNCHANGED <<now, timerH, netH, simH, srv, srvNet, cnet>>

ApplyNext == ApplyStep

SpecApply == ApplyInit /\ [][ApplyNext]_vars

\* C23: Reconciliation disabled.  When the client processes the state of the
\* entity it controls with reconciliation disabled, the entity's position is
\* the position in that state, whatever inputs the history held (none is
\* replayed), the input history is empty afterwards, and nothing else of the
\* client changes.
ReconciliationDisabled ==
    (/\ trace.name = "apply_state"
     /\ trace.before.controlled_entity = Some(trace.state.entity_id)
     /\ ~trace.before.server_reconciliation_enabled) =>
      LET c == clients[1]
          id == trace.state.entity_id
      IN  /\ id \in DOMAIN c.entities
          /\ c.entities[id].position = trace.state.position
          /\ c.input_history = <<>>
          /\ c.state_snapshots = trace.before.state_snapshots
          /\ c.controlled_entity = trace.before.controlled_entity
          /\ \A e \in DOMAIN trace.before.entities :
                e # id => c.entities[e] = trace.before.entities[e]

\* C23 witness: with reconciliation disabled and a history of two inputs, the
\* controlled entity, which was at (5,0), has been set to the state's (20,0)
\* and the history is empty.
ReconciliationDisabledWitness ==
    /\ trace.name = "apply_state"
    /\ trace.state.entity_id = 1
    /\ trace.state.position = Pos(20, 0)
    /\ ~trace.before.server_reconciliation_enabled
    /\ Len(trace.before.input_history) = 2
    /\ 1 \in DOMAIN trace.before.entities
    /\ trace.before.entities[1].position = Pos(5, 0)
    /\ clients[1].entities[1].position = Pos(20, 0)
    /\ clients[1].input_history = <<>>


----------------------------------------------------------------------------
(* Harness of the TickTimer over its whole range: a fresh timer, or one that *)
(* has emitted the ticks 0 .. 2^31 - 4 and carries nothing, with tick()      *)
(* called at arbitrary moments from there.  timerH.emitted are the ticks     *)
(* emitted since.                                                            *)

TimerStarts == {0, I32Max - 2}

TicksInit ==
    /\ now = 0
    /\ \E iv \in TimerIntervals, start \in TimerStarts :
         timerH = [tt |-> [TickTimerNew(iv, 0) EXCEPT !.current_tick = start],
                   emitted |-> <<>>, calls |-> 0, last |-> <<>>]
    /\ netH = Idle
    /\ simH = Idle
    /\ SysIdle

SpecTicks == TicksInit /\ [][TimerNext]_vars

\* b is the tick after a: a + 1, and -2^31 after 2^31 - 1
NextTick(a, b) ==
    \/ a < I32Max /\ b = a + 1
    \/ a = I32Max /\ b = I32Min

\* C24: Tick numbering.  The ticks a timer emits over all its calls are
\* consecutive, without gap or repeat across calls: from a fresh timer the
\* i-th tick emitted is i - 1; the tick after 2^31 - 1 is -2^31; the counter
\* left by a call is the tick after the last one emitted; and after every call
\* the accumulator is less than the tick interval.
TickNumbering ==
    LET e == timerH.emitted
        tt == timerH.tt
    IN  /\ \A i \in DOMAIN e : i > 1 => NextTick(e[i - 1], e[i])
        /\ e # <<>> => e[1] \in TimerStarts /\ NextTick(e[Len(e)], tt.current_tick)
        /\ e = <<>> => tt.current_tick \in TimerStarts
        /\ (e # <<>> /\ e[1] = 0) => \A i \in DOMAIN e : e[i] = i - 1
        /\ IsPrefix(timerH.last, SubSeq(e, Len(e) - Len(timerH.last) + 1, Len(e)))
        /\ tt.time_available >= 0
        /\ tt.time_available < tt.tick_interval

\* C24 witness: a second call has emitted 2^31 - 1 and then -2^31, and left
\* the counter at -2^31 + 1 with a carry.
TickNumberingWitness ==
    /\ timerH.calls >= 2
    /\ Len(timerH.last) >= 2
    /\ \E i \in DOMAIN timerH.last :
         /\ i > 1
         /\ timerH.last[i - 1] = I32Max
         /\ timerH.last[i] = I32Min
    /\ timerH.tt.current_tick = I32Min + 1
    /\ timerH.tt.time_available > 0


\* C25: Interpolation never divides by zero.  After interpolate_entities(tick),
\* with render_tick = tick - 10: if the front pair of the snapshot buffer
\* passes the test snap0.tick <= render_tick <= snap1.tick, under which a
\* position is computed, then snap1.tick > snap0.tick and
\* 0 <= render_tick - snap0.tick < snap1.tick - snap0.tick, so the factor is
\* defined and lies in [0, 1); this holds even though the buffer may hold
\* entries of equal ticks.
InterpolationFactorDefined ==
    trace.name = "interpolate_entities" =>
      LET buf == clients[1].state_snapshots
          render_tick == trace.tick - SmoothingRate
      IN  (/\ Len(trace.before.state_snapshots) >= 2
           /\ Len(buf) >= 2
           /\ buf[1].tick <= render_tick
           /\ buf[2].tick >= render_tick) =>
            /\ buf[2].tick - buf[1].tick > 0
            /\ render_tick - buf[1].tick >= 0
            /\ render_tick - buf[1].tick < buf[2].tick - buf[1].tick

\* C25 witness: the buffer held two entries of tick 10 and one of tick 20; at
\* tick 25 (render_tick 15) the pair used is (10, 20) and the uncontrolled
\* entities have been moved to a position half way between its two.
InterpolationFactorDefinedWitness ==
    /\ trace.name = "interpolate_entities"
    /\ trace.tick = 25
    /\ Len(trace.before.state_snapshots) = 3
    /\ trace.before.state_snapshots[1].tick = 10
    /\ trace.before.state_snapshots[2].tick = 10
    /\ trace.before.state_snapshots[3].tick = 20
    /\ Len(clients[1].state_snapshots) = 2
    /\ clients[1].state_snapshots[1].state.position = Pos(0, 0)
    /\ clients[1].state_snapshots[2].state.position = Pos(10, 0)
    /\ clients[1].entities[2].position = Pos(5, 0)


----------------------------------------------------------------------------
(* Acknowledgments, in a session of one client with the server *)

\* the sequences of the messages of sender id queued in a network, in order
SequencesOf(net, id) ==
    LET mine == SelectSeq(net.messages, LAMBDA m : m.sender_id = id)
    IN  [i \in DOMAIN mine |-> mine[i].message.sequence]

\* C26: Acknowledgments are monotone.  The inputs of a client queued for the
\* server carry increasing sequences, all above the last one the server has
\* processed for it; the messages queued for the client carry sequences that
\* never decrease from front to back, none above the server's last processed
\* value and none below the client's high-water mark.  So the next message
\* the client receives is never older than its mark, and the staleness filter
\* discards nothing the server sent.
AcknowledgmentsMonotone ==
    \A id \in DOMAIN clients :
       LET up == SequencesOf(srvNet, id)
           down == SequencesOf(cnet[id], srv.id)
           acked == LastProcessedTick(srv, id)
       IN  /\ \A i \in DOMAIN up : i > 1 => up[i - 1] < up[i]
           /\ \A i \in DOMAIN up : acked < up[i]
           /\ Len(down) = Len(cnet[id].messages)
           /\ \A i \in DOMAIN down : i > 1 => down[i - 1] <= down[i]
           /\ \A i \in DOMAIN down : down[i] <= acked
           /\ \A i \in DOMAIN down : clients[id].last_message_sequence <= down[i]
           /\ clients[id].last_message_sequence <= acked
           /\ (trace.name = "client_update" /\ trace.id = id) =>
                \A i \in DOMAIN trace.acks :
                   trace.acks[i] >= IF i = 1 THEN trace.mark
                                    ELSE trace.acks[i - 1]

\* C26 witness: after a reconnect, a client.update() has received a message
\* of the server with a higher sequence than the mark an earlier message of
\* the server had left, which was above zero.
AcknowledgmentsMonotoneWitness ==
    /\ trace.name = "client_update"
    /\ clients[1].controlled_entity = Some(2)
    /\ Len(trace.acks) >= 1
    /\ trace.mark > 0
    /\ trace.acks[1] > trace.mark
    /\ clients[1].last_message_sequence = trace.acks[Len(trace.acks)]


----------------------------------------------------------------------------
(* The lookups that unwrap, in the whole program: networked_players.get and  *)
(* world.get_entity in process_client_messages and update_npc_entities,      *)
(* entities.get_mut in process_server_messages, controlled_entity.unwrap in  *)
(* process_input.                                                            *)

\* every entity a queued message names is in the mirror of client c once the
\* receive loop's body has run for that message
LookupsOfMessageSucceed(c, message) ==
    LET after == ProcessMessage(c, message, c.tick_timer.current_tick)
    IN  message.state # None =>
          \A i \in DOMAIN message.state[1] :
             message.state[1][i].entity_id \in DOMAIN after.entities

\* C27: No fatal lookup failure.  In every reachable state of the whole
\* program, under any interleaving of connects, reconnects, client updates and
\* server updates: no lookup of the server has failed; every message queued
\* for the server has a sender id that is in the server's client-to-entity
\* mapping; every entity that mapping or the scripted-entity list names is in
\* the world; every client that is connected has a controlled entity and the
\* server's network; and every entity named by a State queued for a client is
\* in that client's mirror once the client has processed the message.
NoLookupFailure ==
    /\ ~srv.panicked
    /\ \A i \in DOMAIN srvNet.messages :
          srvNet.messages[i].sender_id \in DOMAIN srv.networked_players
    /\ \A id \in DOMAIN srv.networked_players :
          srv.networked_players[id] \in DOMAIN srv.world.entities
    /\ \A i \in DOMAIN srv.npc_entities :
          srv.npc_entities[i] \in DOMAIN srv.world.entities
    /\ \A id \in ClientIds :
          /\ clients[id].connected =>
               /\ clients[id].controlled_entity # None
               /\ clients[id].server_network
          /\ \A i \in DOMAIN cnet[id].messages :
                LookupsOfMessageSucceed(clients[id], cnet[id].messages[i].message)

\* both clients' inputs have been dequeued by the server, the world has grown
\* to three entities, and a client update has put all three in client 1's
\* mirror
NoLookupFailureWitness ==
    /\ trace.name = "client_update"
    /\ trace.id = 1
    /\ DOMAIN srv.last_processed_input = ClientIds
    /\ Cardinality(DOMAIN srv.world.entities) = 3
    /\ DOMAIN clients[1].entities = DOMAIN srv.world.entities
    /\ ~srv.panicked

====
